---- MODULE Spec2Model ----
(***************************************************************************)
(* Model of @aikotools/datafilter: the path accessor (ObjectAccess.ts),    *)
(* the criterion evaluator (FilterEngine), the rule matcher and the strict *)
(* and scan-forward walks of Matcher, the group layer and the convenience  *)
(* entry point filterFiles(request).                                       *)
(***************************************************************************)
EXTENDS Integers, Sequences, FiniteSets, TLC

(***************************************************************************)
(* JSON values.  A value carries the tag the code tests with typeof,       *)
(* Array.isArray and === null / === undefined.                             *)
(***************************************************************************)
Undefined == [kind |-> "undefined"]
Null == [kind |-> "null"]
Str(s) == [kind |-> "string", s |-> s]
Num(n) == [kind |-> "number", n |-> n]
Arr(items) == [kind |-> "array", items |-> items]
Obj(fields) == [kind |-> "object", fields |-> fields]

\* A path element is a string key or a numeric index (PathElement).
KeySeg(k) == [key |-> k]
IdxSeg(i) == [index |-> i]
\* The number i + 1/2 as a path element.
FracSeg(i) == [index |-> i, half |-> TRUE]
IsFraction(segment) == "half" \in DOMAIN segment

NoError == "(none)"
NaN == -1000

\* parseInt(String(segment), 10) on the key strings of the model.
ParseInt(s) ==
  CASE s = "0" -> 0
    [] s = "1" -> 1
    [] s = "2" -> 2
    [] s = "-1" -> -1
    [] s \in {"0.5", "0x"} -> 0
    [] OTHER -> NaN

\* String(segment) for a numeric segment.
NumToString(i) ==
  CASE i = 0 -> "0"
    [] i = 1 -> "1"
    [] i = 2 -> "2"
    [] OTHER -> "(number)"

SegToString(segment) ==
  IF IsFraction(segment) THEN (IF segment.index = 0 THEN "0.5" ELSE "(fraction)")
  ELSE IF "index" \in DOMAIN segment THEN NumToString(segment.index)
  ELSE segment.key

AccessFail(err, validPath) ==
  [value |-> Undefined, found |-> FALSE, error |-> err, validPath |-> validPath]

\* The index an array is read at: the number itself, or parseInt of the
\* step's string.
ArrayIndex(segment) ==
  IF "index" \in DOMAIN segment THEN segment.index ELSE ParseInt(SegToString(segment))

\* current[index] for an index within the bounds: the element, or undefined
\* when the index is not a whole number.
ElementAt(items, segment, index) ==
  IF IsFraction(segment) THEN Undefined ELSE items[index + 1]

\* The step pushed to validPath for an array.
ArrayStep(segment, index) ==
  IF IsFraction(segment) THEN segment ELSE IdxSeg(index)

RECURSIVE Navigate(_, _, _, _)
NavigateArray(items, path, i, validPath, segment, index) ==
  IF index = NaN
  THEN AccessFail("Array index must be a number", validPath)
  ELSE IF index < 0 \/ index >= Len(items)
  THEN AccessFail("Array index out of bounds", validPath)
  ELSE Navigate(ElementAt(items, segment, index), path, i + 1,
                Append(validPath, ArrayStep(segment, index)))

NavigateObject(fields, path, i, validPath, key) ==
  IF key \notin DOMAIN fields
  THEN AccessFail("Property does not exist", validPath)
  ELSE Navigate(fields[key], path, i + 1, Append(validPath, KeySeg(key)))

Navigate(current, path, i, validPath) ==
  IF i > Len(path)
  THEN [value |-> current, found |-> TRUE, error |-> NoError, validPath |-> validPath]
  ELSE IF current.kind = "null" \/ current.kind = "undefined"
  THEN AccessFail("Cannot read property of null or undefined", validPath)
  ELSE IF current.kind = "array"
  THEN NavigateArray(current.items, path, i, validPath, path[i], ArrayIndex(path[i]))
  ELSE IF current.kind = "object"
  THEN NavigateObject(current.fields, path, i, validPath, SegToString(path[i]))
  ELSE AccessFail("Cannot access property of primitive type", validPath)

getValueFromPath(object, path) ==
  IF Len(path) = 0
  THEN [value |-> object, found |-> TRUE, error |-> NoError, validPath |-> <<>>]
  ELSE Navigate(object, path, 1, <<>>)

(***************************************************************************)
(* FilterEngine: deep equality and the criterion checks.                   *)
(***************************************************************************)
RECURSIVE deepEqual(_, _)
deepEqual(a, b) ==
  IF a.kind = "null" \/ b.kind = "null" THEN a.kind = b.kind
  ELSE IF a.kind = "undefined" \/ b.kind = "undefined" THEN a.kind = b.kind
  ELSE IF a.kind # b.kind THEN FALSE
  ELSE IF a.kind = "array"
  THEN /\ Len(a.items) = Len(b.items)
       /\ \A idx \in 1..Len(a.items) : deepEqual(a.items[idx], b.items[idx])
  ELSE IF a.kind = "object"
  THEN /\ Cardinality(DOMAIN a.fields) = Cardinality(DOMAIN b.fields)
       /\ \A key \in DOMAIN a.fields :
            deepEqual(a.fields[key],
                      IF key \in DOMAIN b.fields THEN b.fields[key] ELSE Undefined)
  ELSE a = b

\* Variant: the comparison is made without testing that the path resolved.
checkValueNoFoundTest(data, path, check) ==
  LET accessResult == getValueFromPath(data, path) IN
  IF deepEqual(accessResult.value, check.value)
  THEN [status |-> TRUE, checkType |-> "checkValue", reason |-> NoError]
  ELSE [status |-> FALSE, checkType |-> "checkValue", reason |-> "Value mismatch"]

checkValue(data, path, check) ==
  LET accessResult == getValueFromPath(data, path) IN
  IF ~accessResult.found
  THEN [status |-> FALSE, checkType |-> "checkValue", reason |-> accessResult.error]
  ELSE IF deepEqual(accessResult.value, check.value)
  THEN [status |-> TRUE, checkType |-> "checkValue", reason |-> NoError]
  ELSE [status |-> FALSE, checkType |-> "checkValue", reason |-> "Value mismatch"]

checkExists(data, path, check) ==
  LET accessResult == getValueFromPath(data, path)
      exists == accessResult.found /\ accessResult.value.kind # "undefined"
  IN
  IF check.exists = exists
  THEN [status |-> TRUE, checkType |-> "checkExists", reason |-> NoError]
  ELSE [status |-> FALSE, checkType |-> "checkExists",
        reason |-> IF check.exists THEN "Path should exist but doesn't"
                   ELSE "Path should not exist but does"]

\* Variant: a value that is not an array is treated as an array without
\* elements.
checkArrayElementNoTypeTest(data, path, check) ==
  LET accessResult == getValueFromPath(data, path)
      array == accessResult.value
  IN
  IF ~accessResult.found
  THEN [status |-> FALSE, checkType |-> "checkArrayElement", reason |-> accessResult.error]
  ELSE IF check.itemExists
            = (/\ array.kind = "array"
               /\ \E k \in 1..Len(array.items) : deepEqual(array.items[k], check.item))
  THEN [status |-> TRUE, checkType |-> "checkArrayElement", reason |-> NoError]
  ELSE [status |-> FALSE, checkType |-> "checkArrayElement",
        reason |-> IF check.itemExists THEN "Item should exist in array but doesn't"
                   ELSE "Item should not exist in array but does"]

checkArrayElement(data, path, check) ==
  LET accessResult == getValueFromPath(data, path)
      array == accessResult.value
  IN
  IF ~accessResult.found
  THEN [status |-> FALSE, checkType |-> "checkArrayElement", reason |-> accessResult.error]
  ELSE IF array.kind # "array"
  THEN [status |-> FALSE, checkType |-> "checkArrayElement",
        reason |-> "Value is not an array"]
  ELSE IF check.itemExists
            = (\E k \in 1..Len(array.items) : deepEqual(array.items[k], check.item))
  THEN [status |-> TRUE, checkType |-> "checkArrayElement", reason |-> NoError]
  ELSE [status |-> FALSE, checkType |-> "checkArrayElement",
        reason |-> IF check.itemExists THEN "Item should exist in array but doesn't"
                   ELSE "Item should not exist in array but does"]

checkArraySize(data, path, check) ==
  LET accessResult == getValueFromPath(data, path)
      array == accessResult.value
  IN
  IF ~accessResult.found
  THEN [status |-> FALSE, checkType |-> "checkArraySize", reason |-> accessResult.error]
  ELSE IF array.kind # "array"
  THEN [status |-> FALSE, checkType |-> "checkArraySize", reason |-> "Value is not an array"]
  ELSE IF CASE check.type = "equal" -> Len(array.items) = check.size
            [] check.type = "lessThan" -> Len(array.items) < check.size
            [] check.type = "greaterThan" -> Len(array.items) > check.size
            [] OTHER -> FALSE
  THEN [status |-> TRUE, checkType |-> "checkArraySize", reason |-> NoError]
  ELSE [status |-> FALSE, checkType |-> "checkArraySize",
        reason |-> CASE check.type = "equal" -> "Array length should be"
                     [] check.type = "lessThan" -> "Array length should be less than"
                     [] check.type = "greaterThan" -> "Array length should be greater than"
                     [] OTHER -> ""]

\* DateTime.fromISO on the timestamp strings of the model: the instant as a
\* day count, NaN for a string that is not an ISO timestamp.
FromISO(s) ==
  CASE s = "2024-01-01" -> 0
    [] s = "2024-06-01" -> 152
    [] s = "2024-12-31" -> 365
    [] OTHER -> NaN

\* parseInt(check.min), parseInt(check.max) on the bound strings of the
\* model: the leading digits, NaN when there are none.
ParseIntBound(s) ==
  CASE s = "0" -> 0
    [] s = "2" -> 2
    [] s \in {"2024-01-01", "2024-06-01", "2024-12-31"} -> 2024
    [] OTHER -> NaN

checkTimeRange(data, path, check) ==
  LET accessResult == getValueFromPath(data, path)
      value == accessResult.value
  IN
  IF ~accessResult.found
  THEN [status |-> FALSE, checkType |-> "checkTimeRange", reason |-> accessResult.error]
  ELSE IF value.kind = "number"
  THEN IF ParseIntBound(check.min.s) = NaN \/ ParseIntBound(check.max.s) = NaN
       THEN [status |-> FALSE, checkType |-> "checkTimeRange",
             reason |-> "Min or max is not a valid number"]
       ELSE IF value.n >= ParseIntBound(check.min.s) /\ value.n <= ParseIntBound(check.max.s)
       THEN [status |-> TRUE, checkType |-> "checkTimeRange", reason |-> NoError]
       ELSE [status |-> FALSE, checkType |-> "checkTimeRange",
             reason |-> "Timestamp is outside range"]
  ELSE IF value.kind = "string"
  THEN IF FromISO(value.s) = NaN
       THEN [status |-> FALSE, checkType |-> "checkTimeRange", reason |-> "Invalid timestamp"]
       ELSE IF FromISO(check.min.s) = NaN \/ FromISO(check.max.s) = NaN
       THEN [status |-> FALSE, checkType |-> "checkTimeRange",
             reason |-> "Invalid min or max time"]
       ELSE IF FromISO(value.s) >= FromISO(check.min.s)
               /\ FromISO(value.s) <= FromISO(check.max.s)
       THEN [status |-> TRUE, checkType |-> "checkTimeRange", reason |-> NoError]
       ELSE [status |-> FALSE, checkType |-> "checkTimeRange",
             reason |-> "Timestamp is outside range"]
  ELSE [status |-> FALSE, checkType |-> "checkTimeRange",
        reason |-> "Timestamp must be a string or number"]

checkNumericRange(data, path, check) ==
  LET accessResult == getValueFromPath(data, path)
      value == accessResult.value
  IN
  IF ~accessResult.found
  THEN [status |-> FALSE, checkType |-> "checkNumericRange", reason |-> accessResult.error]
  ELSE IF value.kind # "number"
  THEN [status |-> FALSE, checkType |-> "checkNumericRange",
        reason |-> "Value must be a number"]
  ELSE IF value.n >= check.min.n /\ value.n <= check.max.n
  THEN [status |-> TRUE, checkType |-> "checkNumericRange", reason |-> NoError]
  ELSE [status |-> FALSE, checkType |-> "checkNumericRange",
        reason |-> "Value is outside range"]

\* The OneOf check: the resolved value deep-equals one element of the list;
\* an unresolved path fails like the other checks.
checkOneOf(data, path, check) ==
  LET accessResult == getValueFromPath(data, path) IN
  IF ~accessResult.found
  THEN [status |-> FALSE, checkType |-> "checkOneOf", reason |-> accessResult.error]
  ELSE IF \E k \in 1..Len(check.oneOf) : deepEqual(accessResult.value, check.oneOf[k])
  THEN [status |-> TRUE, checkType |-> "checkOneOf", reason |-> NoError]
  ELSE [status |-> FALSE, checkType |-> "checkOneOf",
        reason |-> "Value is not one of the allowed values"]

evaluateCriterion(data, criterion) ==
  LET check == criterion.check IN
  IF "value" \in DOMAIN check THEN checkValue(data, criterion.path, check)
  ELSE IF "exists" \in DOMAIN check THEN checkExists(data, criterion.path, check)
  ELSE IF "itemExists" \in DOMAIN check /\ "item" \in DOMAIN check
  THEN checkArrayElement(data, criterion.path, check)
  ELSE IF "type" \in DOMAIN check /\ "size" \in DOMAIN check
  THEN checkArraySize(data, criterion.path, check)
  ELSE IF "min" \in DOMAIN check /\ "max" \in DOMAIN check
  THEN IF check.min.kind = "number" /\ check.max.kind = "number"
       THEN checkNumericRange(data, criterion.path, check)
       ELSE checkTimeRange(data, criterion.path, check)
  ELSE IF "oneOf" \in DOMAIN check THEN checkOneOf(data, criterion.path, check)
  ELSE [status |-> FALSE, checkType |-> "unknown", reason |-> "Unknown check type"]

(***************************************************************************)
(* Rules.  A single rule is [match, expected, optional]; a wildcard rule   *)
(* is [matchAny, greedy, optional]; a rule unit is [rule |-> r] (fixed     *)
(* position) or [rules |-> <<r1, ...>>] (flexible group).                  *)
(***************************************************************************)
isWildcardRule(rule) == "matchAny" \in DOMAIN rule

isSingleMatchRule(rule) == "match" \in DOMAIN rule /\ "expected" \in DOMAIN rule

IsArray(ruleOrRules) == "rules" \in DOMAIN ruleOrRules

\* Variant: evaluation stops at the first criterion that fails.
matchFileShortCircuit(file, rule) ==
  LET criteria == IF isWildcardRule(rule) THEN rule.matchAny ELSE rule.match
      all == [k \in 1..Len(criteria) |-> evaluateCriterion(file.data, criteria[k])]
      failing == {k \in 1..Len(all) : ~all[k].status}
      last == IF failing = {} THEN Len(all)
              ELSE CHOOSE k \in failing : \A j \in failing : k <= j
      checks == SubSeq(all, 1, last)
  IN [matched |-> \A k \in 1..Len(checks) : checks[k].status,
      checks |-> checks,
      rule |-> rule]

\* Variant: a rule matches when some criterion holds (checks.some).
matchFileSome(file, rule) ==
  LET criteria == IF isWildcardRule(rule) THEN rule.matchAny ELSE rule.match
      checks == [k \in 1..Len(criteria) |-> evaluateCriterion(file.data, criteria[k])]
  IN [matched |-> checks = <<>> \/ \E k \in 1..Len(checks) : checks[k].status,
      checks |-> checks,
      rule |-> rule]

matchFile(file, rule) ==
  LET criteria == IF isWildcardRule(rule) THEN rule.matchAny ELSE rule.match
      checks == [k \in 1..Len(criteria) |-> evaluateCriterion(file.data, criteria[k])]
  IN [matched |-> \A k \in 1..Len(checks) : checks[k].status,
      checks |-> checks,
      rule |-> rule]

(***************************************************************************)
(* Matcher helpers.                                                        *)
(***************************************************************************)
\* checks.every(check => check.status) over a criteria list.
AllPass(data, criteria) ==
  \A k \in 1..Len(criteria) : evaluateCriterion(data, criteria[k]).status

\* checks.filter(check => !check.status)
FailedChecks(data, criteria) ==
  LET checks == [k \in 1..Len(criteria) |-> evaluateCriterion(data, criteria[k])]
  IN SelectSeq(checks, LAMBDA c : ~c.status)

\* Variant: a file passes when some criterion holds (checks.some).
applyPreFilterSome(files, preFilter) ==
  [matched |-> SelectSeq(files, LAMBDA f :
                 preFilter = <<>> \/ \E k \in 1..Len(preFilter) :
                                       evaluateCriterion(f.data, preFilter[k]).status),
   excluded |-> LET bad == SelectSeq(files, LAMBDA f :
                             preFilter # <<>> /\ \A k \in 1..Len(preFilter) :
                                                  ~evaluateCriterion(f.data, preFilter[k]).status)
                IN [k \in 1..Len(bad) |->
                      [file |-> bad[k], failedChecks |-> FailedChecks(bad[k].data, preFilter)]]]

applyPreFilter(files, preFilter) ==
  [matched |-> SelectSeq(files, LAMBDA f : AllPass(f.data, preFilter)),
   excluded |-> LET bad == SelectSeq(files, LAMBDA f : ~AllPass(f.data, preFilter))
                IN [k \in 1..Len(bad) |->
                      [file |-> bad[k], failedChecks |-> FailedChecks(bad[k].data, preFilter)]]]

\* The comparators a caller can pass as sortFn; negative: a before b.
Compare(sortFn, a, b) ==
  IF sortFn = "byFileNameDesc" THEN b.fileName - a.fileName
  ELSE a.fileName - b.fileName

RECURSIVE InsertSorted(_, _, _)
InsertSorted(sortFn, sorted, f) ==
  IF sorted = <<>> THEN <<f>>
  ELSE IF Compare(sortFn, f, Head(sorted)) < 0 THEN <<f>> \o sorted
  ELSE <<Head(sorted)>> \o InsertSorted(sortFn, Tail(sorted), f)

\* [...files].sort(sortFn): a stable sort of a copy.
RECURSIVE SortCopy(_, _)
SortCopy(sortFn, fs) ==
  IF fs = <<>> THEN <<>>
  ELSE InsertSorted(sortFn, SortCopy(sortFn, SubSeq(fs, 1, Len(fs) - 1)), fs[Len(fs)])

\* Variant: every wildcard is treated as greedy.
GreedyAlways(rule) == TRUE

\* if (rule.greedy): an omitted flag is falsy.
Greedy(rule) == "greedy" \in DOMAIN rule /\ rule.greedy

RuleOptional(rule) == "optional" \in DOMAIN rule /\ rule.optional

RuleCountsMandatory(rule) == ~RuleOptional(rule) /\ ~isWildcardRule(rule)

RECURSIVE countRules(_)
countRules(rules) ==
  IF rules = <<>> THEN 0
  ELSE (IF IsArray(Head(rules)) THEN Len(Head(rules).rules) ELSE 1) + countRules(Tail(rules))

RECURSIVE countMandatoryRules(_)
countMandatoryRules(rules) ==
  IF rules = <<>> THEN 0
  ELSE (IF IsArray(Head(rules))
        THEN Len(SelectSeq(Head(rules).rules, RuleCountsMandatory))
        ELSE IF RuleCountsMandatory(Head(rules).rule) THEN 1 ELSE 0)
       + countMandatoryRules(Tail(rules))

RECURSIVE countOptionalRules(_)
countOptionalRules(rules) ==
  IF rules = <<>> THEN 0
  ELSE (IF IsArray(Head(rules))
        THEN Len(SelectSeq(Head(rules).rules, LAMBDA r : ~RuleCountsMandatory(r)))
        ELSE IF RuleCountsMandatory(Head(rules).rule) THEN 0 ELSE 1)
       + countOptionalRules(Tail(rules))

\* Variant: the consumed-set of a group is never consulted.
FlexUsedNever(used, ruleIndex, subIndex) == FALSE

\* usedFlexibleRules.get(ruleIndex)?.has(subIndex)
FlexUsed(used, ruleIndex, subIndex) ==
  ruleIndex \in DOMAIN used /\ subIndex \in used[ruleIndex]

\* usedFlexibleRules.get(ruleIndex).add(subIndex), creating the set if absent
FlexAdd(used, ruleIndex, subIndex) ==
  IF ruleIndex \in DOMAIN used
  THEN [used EXCEPT ![ruleIndex] = @ \cup {subIndex}]
  ELSE (ruleIndex :> {subIndex}) @@ used

\* Variant: only the first unused member of the group is tried.
StrictFlexFirstOnly(file, group, used, ruleIndex, subIndex, attempted) ==
  IF \A k \in 0..(Len(group) - 1) : k \in (IF ruleIndex \in DOMAIN used THEN used[ruleIndex] ELSE {})
  THEN [hit |-> -1, attempted |-> attempted]
  ELSE
    LET first == CHOOSE k \in 0..(Len(group) - 1) :
                   /\ k \notin (IF ruleIndex \in DOMAIN used THEN used[ruleIndex] ELSE {})
                   /\ \A j \in 0..(k - 1) : j \in used[ruleIndex]
        matchResult == matchFile(file, group[first + 1])
    IN [hit |-> IF matchResult.matched /\ isSingleMatchRule(group[first + 1])
                THEN first ELSE -1,
        attempted |-> Append(attempted, matchResult)]

\* The subrule loop of the strict walk: the unused members are tried in
\* order; only a matching single rule ends the loop.  hit is the matching
\* subIndex (0-based) or -1.
RECURSIVE StrictFlexTry(_, _, _, _, _, _)
StrictFlexTry(file, group, used, ruleIndex, subIndex, attempted) ==
  IF subIndex >= Len(group) THEN [hit |-> -1, attempted |-> attempted]
  ELSE IF FlexUsed(used, ruleIndex, subIndex)
  THEN StrictFlexTry(file, group, used, ruleIndex, subIndex + 1, attempted)
  ELSE
    LET rule == group[subIndex + 1]
        matchResult == matchFile(file, rule)
    IN
    IF matchResult.matched /\ isSingleMatchRule(rule)
    THEN [hit |-> subIndex, attempted |-> Append(attempted, matchResult)]
    ELSE StrictFlexTry(file, group, used, ruleIndex, subIndex + 1,
                       Append(attempted, matchResult))

\* The subrule loop of the scan-forward walk: used single rules are skipped,
\* the first matching member of either kind ends the loop.
RECURSIVE OptionalFlexTry(_, _, _, _, _)
OptionalFlexTry(file, group, used, ruleIndex, subIndex) ==
  IF subIndex >= Len(group) THEN [hit |-> -1]
  ELSE
    LET rule == group[subIndex + 1] IN
    IF isSingleMatchRule(rule) /\ FlexUsed(used, ruleIndex, subIndex)
    THEN OptionalFlexTry(file, group, used, ruleIndex, subIndex + 1)
    ELSE
      LET result == matchFile(file, rule) IN
      IF result.matched
      THEN [hit |-> subIndex, matchResult |-> result, matchedRule |-> rule]
      ELSE OptionalFlexTry(file, group, used, ruleIndex, subIndex + 1)

\* One attempt of the scan-forward walk: the file against the rule unit.
OptionalTry(file, ruleOrRules, used, ruleIndex) ==
  IF IsArray(ruleOrRules)
  THEN OptionalFlexTry(file, ruleOrRules.rules, used, ruleIndex, 0)
  ELSE
    LET matchResult == matchFile(file, ruleOrRules.rule) IN
    IF matchResult.matched
    THEN [hit |-> 0, matchResult |-> matchResult, matchedRule |-> ruleOrRules.rule]
    ELSE [hit |-> -1]

\* The inner for loop: the first fileIndex >= from whose file matches, or -1.
RECURSIVE ScanForward(_, _, _, _, _)
ScanForward(sorted, from, ruleOrRules, used, ruleIndex) ==
  IF from >= Len(sorted) THEN -1
  ELSE IF OptionalTry(sorted[from + 1], ruleOrRules, used, ruleIndex).hit >= 0 THEN from
  ELSE ScanForward(sorted, from + 1, ruleOrRules, used, ruleIndex)

\* lastMatchedRule || '(start)'
OrStart(last) == IF "s" \in DOMAIN last /\ last.s # "" THEN last.s ELSE "(start)"

\* Variant: the last skipped file of a gap is left out.
GapEntriesShort(sorted, lo, hi, afterRule, beforeRule) ==
  [k \in 1..(IF hi > lo + 1 THEN hi - lo - 1 ELSE 0) |->
     [fileName |-> sorted[lo + k].fileName,
      position |-> lo + k - 1,
      between |-> [afterRule |-> afterRule, beforeRule |-> beforeRule],
      failedMatches |-> <<>>]]

\* Variant: the two sides of the between context are exchanged.
GapEntriesSwapped(sorted, lo, hi, afterRule, beforeRule) ==
  [k \in 1..(IF hi > lo THEN hi - lo ELSE 0) |->
     [fileName |-> sorted[lo + k].fileName,
      position |-> lo + k - 1,
      between |-> [afterRule |-> beforeRule, beforeRule |-> afterRule],
      failedMatches |-> <<>>]]

\* The optionalFiles entries for sorted[lo .. hi-1] (0-based, hi exclusive).
GapEntries(sorted, lo, hi, afterRule, beforeRule) ==
  [k \in 1..(IF hi > lo THEN hi - lo ELSE 0) |->
     [fileName |-> sorted[lo + k].fileName,
      position |-> lo + k - 1,
      between |-> [afterRule |-> afterRule, beforeRule |-> beforeRule],
      failedMatches |-> <<>>]]

(***************************************************************************)
(* State.  One invocation of filterFiles(request); the walk variables are  *)
(* the locals of the Matcher.filterFiles call in progress (the flat call,  *)
(* or the call made for the current group).                                *)
(***************************************************************************)
VARIABLES
  request,              \* the FilterRequest; absent fields are absent
  pc,                   \* "call", "strict", "optional", "groups", "done", "error"
  error,                \* message of the thrown Error, or NoError
  caller,               \* "flat" or "groups": who called Matcher.filterFiles
  preFiltered,          \* excluded by the pre-filter
  sortedFiles,          \* sortedFiles of the outermost call
  groupIndex,           \* position in request.groups (0-based)
  merged,               \* buckets accumulated by filterFilesWithGroups
  curFiles,             \* sortedFiles of the Matcher.filterFiles call
  curRules,             \* rules of the Matcher.filterFiles call
  fileIndex,            \* strict walk: file cursor
  ruleIndex,            \* rule cursor
  usedFlexibleRules,    \* Map<ruleIndex, Set<subIndex>>
  usedStandaloneRules,  \* Set<ruleIndex>
  matchedFileIndices,   \* Set<fileIndex>
  currentFileIndex,     \* scan-forward walk: file cursor
  lastMatchedIndex,
  lastMatchedRule,      \* [null |-> TRUE] or [s |-> label]
  mapped, wildcardMatched, unmapped, optionalFiles,
  result,               \* the returned FilterResult, or NoResult
  earlier               \* the invocations made before this one: their number,
                        \* and the arguments and outcome of the first

walkVars == <<fileIndex, ruleIndex, usedFlexibleRules, usedStandaloneRules,
              matchedFileIndices, currentFileIndex, lastMatchedIndex,
              lastMatchedRule, mapped, wildcardMatched, unmapped, optionalFiles>>

outerVars == <<earlier, request, error, caller, preFiltered, sortedFiles, groupIndex, merged,
               curFiles, curRules, result>>

vars == <<earlier, request, pc, error, caller, preFiltered, sortedFiles, groupIndex, merged,
          curFiles, curRules, fileIndex, ruleIndex, usedFlexibleRules,
          usedStandaloneRules, matchedFileIndices, currentFileIndex,
          lastMatchedIndex, lastMatchedRule, mapped, wildcardMatched, unmapped,
          optionalFiles, result>>

NoResult == [none |-> TRUE]
EmptyBuckets == [mapped |-> <<>>, wildcardMatched |-> <<>>, unmapped |-> <<>>,
                 optionalFiles |-> <<>>]

\* mode parameter with its default
Mode == IF "mode" \in DOMAIN request THEN request.mode ELSE "strict"

\* Variant: an empty rules array counts as not supplied.
HasRulesNonEmpty == "rules" \in DOMAIN request /\ request.rules # <<>>

HasRules == "rules" \in DOMAIN request
HasGroups == "groups" \in DOMAIN request

\* preFilter ? applyPreFilter(files, preFilter) : files, then the sorted copy
Prepared(files, req) ==
  LET pre == IF "preFilter" \in DOMAIN req
             THEN applyPreFilter(files, req.preFilter)
             ELSE [matched |-> files, excluded |-> <<>>]
  IN [sorted |-> IF "sortFn" \in DOMAIN req THEN SortCopy(req.sortFn, pre.matched)
                 ELSE pre.matched,
      preFiltered |-> pre.excluded]

\* Variant: the consumed-sets live on the Matcher instance and outlast a call.
WalkResetKeepsUsed ==
  /\ fileIndex' = 0
  /\ ruleIndex' = 0
  /\ usedFlexibleRules' = usedFlexibleRules
  /\ usedStandaloneRules' = usedStandaloneRules
  /\ matchedFileIndices' = {}
  /\ currentFileIndex' = 0
  /\ lastMatchedIndex' = -1
  /\ lastMatchedRule' = [null |-> TRUE]
  /\ mapped' = <<>>
  /\ wildcardMatched' = <<>>
  /\ unmapped' = <<>>
  /\ optionalFiles' = <<>>

\* The locals of a fresh Matcher.filterFiles call.
WalkReset ==
  /\ fileIndex' = 0
  /\ ruleIndex' = 0
  /\ usedFlexibleRules' = <<>>
  /\ usedStandaloneRules' = {}
  /\ matchedFileIndices' = {}
  /\ currentFileIndex' = 0
  /\ lastMatchedIndex' = -1
  /\ lastMatchedRule' = [null |-> TRUE]
  /\ mapped' = <<>>
  /\ wildcardMatched' = <<>>
  /\ unmapped' = <<>>
  /\ optionalFiles' = <<>>

WalkPc(mode) == IF mode = "optional" \/ mode = "strict-optional" THEN "optional" ELSE "strict"

InitWith(req) ==
  /\ request = req
  /\ pc = "call"
  /\ error = NoError
  /\ caller = "flat"
  /\ preFiltered = <<>>
  /\ sortedFiles = <<>>
  /\ groupIndex = 0
  /\ merged = EmptyBuckets
  /\ curFiles = <<>>
  /\ curRules = <<>>
  /\ fileIndex = 0
  /\ ruleIndex = 0
  /\ usedFlexibleRules = <<>>
  /\ usedStandaloneRules = {}
  /\ matchedFileIndices = {}
  /\ currentFileIndex = 0
  /\ lastMatchedIndex = -1
  /\ lastMatchedRule = [null |-> TRUE]
  /\ mapped = <<>>
  /\ wildcardMatched = <<>>
  /\ unmapped = <<>>
  /\ optionalFiles = <<>>
  /\ result = NoResult
  /\ earlier = [calls |-> 0]

(***************************************************************************)
(* filterFiles(request): validation and dispatch.                          *)
(***************************************************************************)
RejectBoth ==
  /\ pc = "call"
  /\ HasRules /\ HasGroups
  /\ pc' = "error"
  /\ error' = "FilterRequest: Provide either rules or groups, not both"
  /\ UNCHANGED <<earlier, request, caller, preFiltered, sortedFiles, groupIndex, merged,
                 curFiles, curRules, result>>
  /\ UNCHANGED walkVars

RejectNeither ==
  /\ pc = "call"
  /\ ~HasRules /\ ~HasGroups
  /\ pc' = "error"
  /\ error' = "FilterRequest: Must provide either rules or groups"
  /\ UNCHANGED <<earlier, request, caller, preFiltered, sortedFiles, groupIndex, merged,
                 curFiles, curRules, result>>
  /\ UNCHANGED walkVars

\* Variant: with groups the records are not sorted.
EnterGroupsUnsorted(prep) ==
  /\ preFiltered' = prep.preFiltered
  /\ sortedFiles' = IF "preFilter" \in DOMAIN request
                    THEN applyPreFilter(request.files, request.preFilter).matched
                    ELSE request.files
  /\ caller' = "groups"
  /\ groupIndex' = 0
  /\ merged' = EmptyBuckets
  /\ pc' = "groups"
  /\ UNCHANGED <<earlier, request, error, curFiles, curRules, result>>
  /\ UNCHANGED walkVars

\* Matcher.filterFilesWithGroups up to its group loop.
EnterGroupsWith(prep) ==
  /\ preFiltered' = prep.preFiltered
  /\ sortedFiles' = prep.sorted
  /\ caller' = "groups"
  /\ groupIndex' = 0
  /\ merged' = EmptyBuckets
  /\ pc' = "groups"
  /\ UNCHANGED <<earlier, request, error, curFiles, curRules, result>>
  /\ UNCHANGED walkVars

EnterGroups ==
  /\ pc = "call"
  /\ HasGroups /\ ~HasRules
  /\ EnterGroupsWith(Prepared(request.files, request))

\* Variant: the sort runs on filteredFiles itself, which is the caller's
\* array when no preFilter is given.
EnterFlatInPlace(prep) ==
  /\ preFiltered' = prep.preFiltered
  /\ sortedFiles' = prep.sorted
  /\ curFiles' = prep.sorted
  /\ curRules' = request.rules
  /\ caller' = "flat"
  /\ WalkReset
  /\ pc' = WalkPc(Mode)
  /\ request' = IF "sortFn" \in DOMAIN request /\ "preFilter" \notin DOMAIN request
                THEN [request EXCEPT !.files = prep.sorted]
                ELSE request
  /\ UNCHANGED <<earlier, error, groupIndex, merged, result>>

\* Matcher.filterFiles up to the start of its walk.
EnterFlatWith(prep) ==
  /\ preFiltered' = prep.preFiltered
  /\ sortedFiles' = prep.sorted
  /\ curFiles' = prep.sorted
  /\ curRules' = request.rules
  /\ caller' = "flat"
  /\ WalkReset
  /\ pc' = WalkPc(Mode)
  /\ UNCHANGED <<earlier, request, error, groupIndex, merged, result>>

EnterFlat ==
  /\ pc = "call"
  /\ HasRules /\ ~HasGroups
  /\ EnterFlatWith(Prepared(request.files, request))

(***************************************************************************)
(* The strict walk: one action per iteration of the while loop.            *)
(***************************************************************************)
\* Identity of a rule object: <<group (-1 for a flat call), ruleIndex, subIndex>>,
\* subIndex -1 for a standalone rule.
RuleAt(sub) == <<IF caller = "groups" THEN groupIndex ELSE -1, ruleIndex, sub>>

MappedEntry(rule, file, matchResult, sub) ==
  [expected |-> rule.expected, file |-> file, matchResult |-> matchResult,
   optional |-> RuleOptional(rule), at |-> RuleAt(sub)]

WildcardEntry(file, matchResult, sub) ==
  [file |-> file, matchResult |-> matchResult, at |-> RuleAt(sub)]

\* Variant: a record left after the last rule is passed over.
StrictNoMoreRulesDrops ==
  /\ pc = "strict"
  /\ fileIndex < Len(curFiles)
  /\ ruleIndex >= Len(curRules)
  /\ unmapped' = unmapped
  /\ fileIndex' = fileIndex + 1
  /\ UNCHANGED <<pc, ruleIndex, usedFlexibleRules, usedStandaloneRules,
                 matchedFileIndices, currentFileIndex, lastMatchedIndex,
                 lastMatchedRule, mapped, wildcardMatched, optionalFiles>>
  /\ UNCHANGED outerVars

StrictNoMoreRules ==
  /\ pc = "strict"
  /\ fileIndex < Len(curFiles)
  /\ ruleIndex >= Len(curRules)
  /\ unmapped' = IF fileIndex \notin matchedFileIndices
                 THEN Append(unmapped, [file |-> curFiles[fileIndex + 1],
                                        attemptedRules |-> <<>>])
                 ELSE unmapped
  /\ fileIndex' = fileIndex + 1
  /\ UNCHANGED <<pc, ruleIndex, usedFlexibleRules, usedStandaloneRules,
                 matchedFileIndices, currentFileIndex, lastMatchedIndex,
                 lastMatchedRule, mapped, wildcardMatched, optionalFiles>>
  /\ UNCHANGED outerVars

\* Variant: every member has to be mandatory.
HasMandatoryRuleEvery(group) ==
  \A k \in 1..Len(group) : isSingleMatchRule(group[k]) /\ ~RuleOptional(group[k])

HasMandatoryRule(group) ==
  \E k \in 1..Len(group) : isSingleMatchRule(group[k]) /\ ~RuleOptional(group[k])

\* Variant: the rule cursor leaves the group as soon as one member matched.
StrictGroupStepLeavesOnMatch(file, group, try, used) ==
  /\ usedFlexibleRules' = used
  /\ mapped' = IF try.hit >= 0
               THEN Append(mapped,
                           MappedEntry(group[try.hit + 1], file,
                                       try.attempted[Len(try.attempted)], try.hit))
               ELSE mapped
  /\ matchedFileIndices' = IF try.hit >= 0 THEN matchedFileIndices \cup {fileIndex}
                           ELSE matchedFileIndices
  /\ ruleIndex' = IF try.hit >= 0 THEN ruleIndex + 1 ELSE ruleIndex
  /\ unmapped' = IF try.hit < 0 /\ HasMandatoryRule(group)
                 THEN Append(unmapped, [file |-> file, attemptedRules |-> try.attempted])
                 ELSE unmapped
  /\ fileIndex' = fileIndex + 1

\* The group branch once the subrule loop has run: try is its outcome, used
\* the consumed-set map after it.
StrictGroupStep(file, group, try, used) ==
  /\ usedFlexibleRules' = used
  /\ mapped' = IF try.hit >= 0
               THEN Append(mapped,
                           MappedEntry(group[try.hit + 1], file,
                                       try.attempted[Len(try.attempted)], try.hit))
               ELSE mapped
  /\ matchedFileIndices' = IF try.hit >= 0 THEN matchedFileIndices \cup {fileIndex}
                           ELSE matchedFileIndices
  /\ ruleIndex' = IF ruleIndex \in DOMAIN used /\ Cardinality(used[ruleIndex]) = Len(group)
                  THEN ruleIndex + 1
                  ELSE ruleIndex
  /\ unmapped' = IF try.hit < 0 /\ HasMandatoryRule(group)
                 THEN Append(unmapped, [file |-> file, attemptedRules |-> try.attempted])
                 ELSE unmapped
  /\ fileIndex' = fileIndex + 1

StrictGroupTried(file, group, try) ==
  StrictGroupStep(file, group, try,
                  IF try.hit >= 0 THEN FlexAdd(usedFlexibleRules, ruleIndex, try.hit)
                  ELSE usedFlexibleRules)

StrictFlexibleGroup ==
  /\ pc = "strict"
  /\ fileIndex < Len(curFiles)
  /\ ruleIndex < Len(curRules)
  /\ IsArray(curRules[ruleIndex + 1])
  /\ StrictGroupTried(curFiles[fileIndex + 1], curRules[ruleIndex + 1].rules,
                      StrictFlexTry(curFiles[fileIndex + 1], curRules[ruleIndex + 1].rules,
                                    usedFlexibleRules, ruleIndex, 0, <<>>))
  /\ UNCHANGED <<pc, usedStandaloneRules, currentFileIndex, lastMatchedIndex,
                 lastMatchedRule, wildcardMatched, optionalFiles>>
  /\ UNCHANGED outerVars

\* Variant: a matching single rule is neither marked used nor left.
StrictStandaloneStay(file, rule, matchResult) ==
  IF isSingleMatchRule(rule) /\ ruleIndex \in usedStandaloneRules
  THEN /\ ruleIndex' = ruleIndex + 1
       /\ UNCHANGED <<fileIndex, usedStandaloneRules, matchedFileIndices,
                      mapped, wildcardMatched, unmapped>>
  ELSE IF matchResult.matched
  THEN IF isSingleMatchRule(rule)
       THEN /\ mapped' = Append(mapped, MappedEntry(rule, file, matchResult, -1))
            /\ matchedFileIndices' = matchedFileIndices \cup {fileIndex}
            /\ fileIndex' = fileIndex + 1
            /\ UNCHANGED <<ruleIndex, usedStandaloneRules, wildcardMatched, unmapped>>
       ELSE /\ wildcardMatched' = Append(wildcardMatched,
                                         WildcardEntry(file, matchResult, -1))
            /\ matchedFileIndices' = matchedFileIndices \cup {fileIndex}
            /\ ruleIndex' = IF Greedy(rule) THEN ruleIndex ELSE ruleIndex + 1
            /\ fileIndex' = fileIndex + 1
            /\ UNCHANGED <<usedStandaloneRules, mapped, unmapped>>
  ELSE IF RuleOptional(rule) \/ isWildcardRule(rule)
  THEN /\ ruleIndex' = ruleIndex + 1
       /\ UNCHANGED <<fileIndex, usedStandaloneRules, matchedFileIndices,
                      mapped, wildcardMatched, unmapped>>
  ELSE /\ unmapped' = Append(unmapped, [file |-> file,
                                        attemptedRules |-> <<matchResult>>])
       /\ fileIndex' = fileIndex + 1
       /\ UNCHANGED <<ruleIndex, usedStandaloneRules, matchedFileIndices,
                      mapped, wildcardMatched>>

\* Variant: the mandatory no-match branch records the file without leaving
\* it.
StrictStandaloneNoAdvance(file, rule, matchResult) ==
  IF isSingleMatchRule(rule) /\ ruleIndex \in usedStandaloneRules
  THEN /\ ruleIndex' = ruleIndex + 1
       /\ UNCHANGED <<fileIndex, usedStandaloneRules, matchedFileIndices,
                      mapped, wildcardMatched, unmapped>>
  ELSE IF matchResult.matched
  THEN IF isSingleMatchRule(rule)
       THEN /\ mapped' = Append(mapped, MappedEntry(rule, file, matchResult, -1))
            /\ matchedFileIndices' = matchedFileIndices \cup {fileIndex}
            /\ usedStandaloneRules' = usedStandaloneRules \cup {ruleIndex}
            /\ ruleIndex' = ruleIndex + 1
            /\ fileIndex' = fileIndex + 1
            /\ UNCHANGED <<wildcardMatched, unmapped>>
       ELSE /\ wildcardMatched' = Append(wildcardMatched,
                                         WildcardEntry(file, matchResult, -1))
            /\ matchedFileIndices' = matchedFileIndices \cup {fileIndex}
            /\ ruleIndex' = IF Greedy(rule) THEN ruleIndex ELSE ruleIndex + 1
            /\ fileIndex' = fileIndex + 1
            /\ UNCHANGED <<usedStandaloneRules, mapped, unmapped>>
  ELSE IF RuleOptional(rule) \/ isWildcardRule(rule)
  THEN /\ ruleIndex' = ruleIndex + 1
       /\ UNCHANGED <<fileIndex, usedStandaloneRules, matchedFileIndices,
                      mapped, wildcardMatched, unmapped>>
  ELSE /\ unmapped' = Append(unmapped, [file |-> file,
                                        attemptedRules |-> <<matchResult>>])
       /\ UNCHANGED <<fileIndex, ruleIndex, usedStandaloneRules, matchedFileIndices,
                      mapped, wildcardMatched>>

\* Variant: a mandatory rule that does not match is skipped like an
\* optional one.
StrictStandaloneSkipsMandatory(file, rule, matchResult) ==
  IF isSingleMatchRule(rule) /\ ruleIndex \in usedStandaloneRules
  THEN /\ ruleIndex' = ruleIndex + 1
       /\ UNCHANGED <<fileIndex, usedStandaloneRules, matchedFileIndices,
                      mapped, wildcardMatched, unmapped>>
  ELSE IF matchResult.matched
  THEN IF isSingleMatchRule(rule)
       THEN /\ mapped' = Append(mapped, MappedEntry(rule, file, matchResult, -1))
            /\ matchedFileIndices' = matchedFileIndices \cup {fileIndex}
            /\ usedStandaloneRules' = usedStandaloneRules \cup {ruleIndex}
            /\ ruleIndex' = ruleIndex + 1
            /\ fileIndex' = fileIndex + 1
            /\ UNCHANGED <<wildcardMatched, unmapped>>
       ELSE /\ wildcardMatched' = Append(wildcardMatched,
                                         WildcardEntry(file, matchResult, -1))
            /\ matchedFileIndices' = matchedFileIndices \cup {fileIndex}
            /\ ruleIndex' = IF Greedy(rule) THEN ruleIndex ELSE ruleIndex + 1
            /\ fileIndex' = fileIndex + 1
            /\ UNCHANGED <<usedStandaloneRules, mapped, unmapped>>
  ELSE /\ ruleIndex' = ruleIndex + 1
       /\ UNCHANGED <<fileIndex, usedStandaloneRules, matchedFileIndices,
                      mapped, wildcardMatched, unmapped>>

\* Variant: skipping an optional rule also leaves the record behind.
StrictStandaloneDropsOnSkip(file, rule, matchResult) ==
  IF isSingleMatchRule(rule) /\ ruleIndex \in usedStandaloneRules
  THEN /\ ruleIndex' = ruleIndex + 1
       /\ UNCHANGED <<fileIndex, usedStandaloneRules, matchedFileIndices,
                      mapped, wildcardMatched, unmapped>>
  ELSE IF matchResult.matched
  THEN IF isSingleMatchRule(rule)
       THEN /\ mapped' = Append(mapped, MappedEntry(rule, file, matchResult, -1))
            /\ matchedFileIndices' = matchedFileIndices \cup {fileIndex}
            /\ usedStandaloneRules' = usedStandaloneRules \cup {ruleIndex}
            /\ ruleIndex' = ruleIndex + 1
            /\ fileIndex' = fileIndex + 1
            /\ UNCHANGED <<wildcardMatched, unmapped>>
       ELSE /\ wildcardMatched' = Append(wildcardMatched,
                                         WildcardEntry(file, matchResult, -1))
            /\ matchedFileIndices' = matchedFileIndices \cup {fileIndex}
            /\ ruleIndex' = IF Greedy(rule) THEN ruleIndex ELSE ruleIndex + 1
            /\ fileIndex' = fileIndex + 1
            /\ UNCHANGED <<usedStandaloneRules, mapped, unmapped>>
  ELSE IF RuleOptional(rule) \/ isWildcardRule(rule)
  THEN /\ ruleIndex' = ruleIndex + 1
       /\ fileIndex' = fileIndex + 1
       /\ UNCHANGED <<usedStandaloneRules, matchedFileIndices,
                      mapped, wildcardMatched, unmapped>>
  ELSE /\ unmapped' = Append(unmapped, [file |-> file,
                                        attemptedRules |-> <<matchResult>>])
       /\ fileIndex' = fileIndex + 1
       /\ UNCHANGED <<ruleIndex, usedStandaloneRules, matchedFileIndices,
                      mapped, wildcardMatched>>

StrictStandaloneStep(file, rule, matchResult) ==
  IF isSingleMatchRule(rule) /\ ruleIndex \in usedStandaloneRules
  THEN /\ ruleIndex' = ruleIndex + 1
       /\ UNCHANGED <<fileIndex, usedStandaloneRules, matchedFileIndices,
                      mapped, wildcardMatched, unmapped>>
  ELSE IF matchResult.matched
  THEN IF isSingleMatchRule(rule)
       THEN /\ mapped' = Append(mapped, MappedEntry(rule, file, matchResult, -1))
            /\ matchedFileIndices' = matchedFileIndices \cup {fileIndex}
            /\ usedStandaloneRules' = usedStandaloneRules \cup {ruleIndex}
            /\ ruleIndex' = ruleIndex + 1
            /\ fileIndex' = fileIndex + 1
            /\ UNCHANGED <<wildcardMatched, unmapped>>
       ELSE IF isWildcardRule(rule)
       THEN /\ wildcardMatched' = Append(wildcardMatched,
                                         WildcardEntry(file, matchResult, -1))
            /\ matchedFileIndices' = matchedFileIndices \cup {fileIndex}
            /\ ruleIndex' = IF Greedy(rule) THEN ruleIndex ELSE ruleIndex + 1
            /\ fileIndex' = fileIndex + 1
            /\ UNCHANGED <<usedStandaloneRules, mapped, unmapped>>
       ELSE UNCHANGED <<fileIndex, ruleIndex, usedStandaloneRules,
                        matchedFileIndices, mapped, wildcardMatched, unmapped>>
  ELSE IF RuleOptional(rule) \/ isWildcardRule(rule)
  THEN /\ ruleIndex' = ruleIndex + 1
       /\ UNCHANGED <<fileIndex, usedStandaloneRules, matchedFileIndices,
                      mapped, wildcardMatched, unmapped>>
  ELSE /\ unmapped' = Append(unmapped, [file |-> file,
                                        attemptedRules |-> <<matchResult>>])
       /\ fileIndex' = fileIndex + 1
       /\ UNCHANGED <<ruleIndex, usedStandaloneRules, matchedFileIndices,
                      mapped, wildcardMatched>>

StrictStandalone ==
  /\ pc = "strict"
  /\ fileIndex < Len(curFiles)
  /\ ruleIndex < Len(curRules)
  /\ ~IsArray(curRules[ruleIndex + 1])
  /\ StrictStandaloneStep(curFiles[fileIndex + 1], curRules[ruleIndex + 1].rule,
                          matchFile(curFiles[fileIndex + 1], curRules[ruleIndex + 1].rule))
  /\ UNCHANGED <<pc, usedFlexibleRules, currentFileIndex, lastMatchedIndex,
                 lastMatchedRule, optionalFiles>>
  /\ UNCHANGED outerVars

\* Variant: totalFiles counts the files that reached the walk.
WalkResultSorted(m, w, o, u, total) ==
  [mapped |-> m, wildcardMatched |-> w, optionalFiles |-> o, unmapped |-> u,
   preFiltered |-> preFiltered,
   stats |-> [totalFiles |-> Len(curFiles),
              mappedFiles |-> Len(m),
              wildcardMatchedFiles |-> Len(w),
              unmappedFiles |-> Len(u),
              optionalFiles |-> Len(o),
              preFilteredFiles |-> Len(preFiltered),
              totalRules |-> countRules(curRules),
              mandatoryRules |-> countMandatoryRules(curRules),
              optionalRules |-> countOptionalRules(curRules)]]

\* The value a Matcher.filterFiles call returns (stats of the flat call).
WalkResult(m, w, o, u, total) ==
  [mapped |-> m, wildcardMatched |-> w, optionalFiles |-> o, unmapped |-> u,
   preFiltered |-> preFiltered,
   stats |-> [totalFiles |-> total,
              mappedFiles |-> Len(m),
              wildcardMatchedFiles |-> Len(w),
              unmappedFiles |-> Len(u),
              optionalFiles |-> Len(o),
              preFilteredFiles |-> Len(preFiltered),
              totalRules |-> countRules(curRules),
              mandatoryRules |-> countMandatoryRules(curRules),
              optionalRules |-> countOptionalRules(curRules)]]

\* Return of Matcher.filterFiles: to the caller of filterFiles(request), or
\* into the merge step of the group loop.
Return(m, w, o, u) ==
  IF caller = "flat"
  THEN /\ result' = WalkResult(m, w, o, u, Len(request.files))
       /\ pc' = "done"
       /\ UNCHANGED <<merged, groupIndex>>
  ELSE /\ merged' = [mapped |-> merged.mapped \o m,
                     wildcardMatched |-> merged.wildcardMatched \o w,
                     unmapped |-> merged.unmapped \o u,
                     optionalFiles |-> merged.optionalFiles \o o]
       /\ groupIndex' = groupIndex + 1
       /\ pc' = "groups"
       /\ UNCHANGED result

StrictFinish ==
  /\ pc = "strict"
  /\ fileIndex >= Len(curFiles)
  /\ Return(mapped, wildcardMatched, optionalFiles, unmapped)
  /\ UNCHANGED <<earlier, request, error, caller, preFiltered, sortedFiles, curFiles, curRules>>
  /\ UNCHANGED walkVars

(***************************************************************************)
(* The scan-forward walk (modes optional and strict-optional): one action  *)
(* per iteration of the rule loop.                                         *)
(***************************************************************************)
\* The match branch of the file loop: the file at position at matched
\* matchedRule (member sub of a group, -1 for a standalone rule).
\* Variant: after a match the next scan starts again at the first file.
OptionalMatchedRewinds(ruleOrRules, at, file, matchResult, matchedRule, sub) ==
  /\ usedFlexibleRules' =
       IF IsArray(ruleOrRules) /\ isSingleMatchRule(matchedRule)
       THEN FlexAdd(usedFlexibleRules, ruleIndex, sub)
       ELSE usedFlexibleRules
  /\ optionalFiles' = optionalFiles \o
       GapEntries(curFiles, lastMatchedIndex + 1, at, OrStart(lastMatchedRule),
                  IF isSingleMatchRule(matchedRule) THEN matchedRule.expected
                  ELSE "(wildcard)")
  /\ IF isSingleMatchRule(matchedRule)
     THEN /\ mapped' = Append(mapped, MappedEntry(matchedRule, file, matchResult, sub))
          /\ lastMatchedRule' = [s |-> matchedRule.expected]
          /\ UNCHANGED wildcardMatched
     ELSE IF isWildcardRule(matchedRule)
     THEN /\ wildcardMatched' = Append(wildcardMatched,
                                       WildcardEntry(file, matchResult, sub))
          /\ lastMatchedRule' = [s |-> "(wildcard)"]
          /\ UNCHANGED mapped
     ELSE UNCHANGED <<mapped, wildcardMatched, lastMatchedRule>>
  /\ lastMatchedIndex' = at
  /\ currentFileIndex' = 0

OptionalMatched(ruleOrRules, at, file, matchResult, matchedRule, sub) ==
  /\ usedFlexibleRules' =
       IF IsArray(ruleOrRules) /\ isSingleMatchRule(matchedRule)
       THEN FlexAdd(usedFlexibleRules, ruleIndex, sub)
       ELSE usedFlexibleRules
  /\ optionalFiles' = optionalFiles \o
       GapEntries(curFiles, lastMatchedIndex + 1, at, OrStart(lastMatchedRule),
                  IF isSingleMatchRule(matchedRule) THEN matchedRule.expected
                  ELSE "(wildcard)")
  /\ IF isSingleMatchRule(matchedRule)
     THEN /\ mapped' = Append(mapped, MappedEntry(matchedRule, file, matchResult, sub))
          /\ lastMatchedRule' = [s |-> matchedRule.expected]
          /\ UNCHANGED wildcardMatched
     ELSE IF isWildcardRule(matchedRule)
     THEN /\ wildcardMatched' = Append(wildcardMatched,
                                       WildcardEntry(file, matchResult, sub))
          /\ lastMatchedRule' = [s |-> "(wildcard)"]
          /\ UNCHANGED mapped
     ELSE UNCHANGED <<mapped, wildcardMatched, lastMatchedRule>>
  /\ lastMatchedIndex' = at
  /\ currentFileIndex' = at + 1

OptionalTried(ruleOrRules, at, try) ==
  OptionalMatched(ruleOrRules, at, curFiles[at + 1], try.matchResult, try.matchedRule,
                  IF IsArray(ruleOrRules) THEN try.hit ELSE -1)

OptionalFoundAt(ruleOrRules, at) ==
  /\ at >= 0
  /\ OptionalTried(ruleOrRules, at,
                   OptionalTry(curFiles[at + 1], ruleOrRules, usedFlexibleRules, ruleIndex))

\* Variant: a greedy wildcard keeps the rule cursor after a match, as in the
\* strict walk.
OptionalRuleFoundGreedy ==
  /\ pc = "optional"
  /\ ruleIndex < Len(curRules)
  /\ OptionalFoundAt(curRules[ruleIndex + 1],
                     ScanForward(curFiles, currentFileIndex, curRules[ruleIndex + 1],
                                 usedFlexibleRules, ruleIndex))
  /\ ruleIndex' = IF /\ ~IsArray(curRules[ruleIndex + 1])
                     /\ isWildcardRule(curRules[ruleIndex + 1].rule)
                     /\ Greedy(curRules[ruleIndex + 1].rule)
                  THEN ruleIndex ELSE ruleIndex + 1
  /\ UNCHANGED <<pc, fileIndex, usedStandaloneRules, matchedFileIndices, unmapped>>
  /\ UNCHANGED outerVars

OptionalRuleFound ==
  /\ pc = "optional"
  /\ ruleIndex < Len(curRules)
  /\ OptionalFoundAt(curRules[ruleIndex + 1],
                     ScanForward(curFiles, currentFileIndex, curRules[ruleIndex + 1],
                                 usedFlexibleRules, ruleIndex))
  /\ ruleIndex' = ruleIndex + 1
  /\ UNCHANGED <<pc, fileIndex, usedStandaloneRules, matchedFileIndices, unmapped>>
  /\ UNCHANGED outerVars

\* Variant: every rule unit counts as mandatory.
IsMandatoryAlways(ruleOrRules) == TRUE

\* Variant: a group is mandatory only when all its members are.
IsMandatoryAll(ruleOrRules) ==
  IF IsArray(ruleOrRules)
  THEN \A k \in 1..Len(ruleOrRules.rules) :
         ~RuleOptional(ruleOrRules.rules[k]) /\ ~isWildcardRule(ruleOrRules.rules[k])
  ELSE ~RuleOptional(ruleOrRules.rule) /\ ~isWildcardRule(ruleOrRules.rule)

IsMandatory(ruleOrRules) ==
  IF IsArray(ruleOrRules)
  THEN \E k \in 1..Len(ruleOrRules.rules) :
         ~RuleOptional(ruleOrRules.rules[k]) /\ ~isWildcardRule(ruleOrRules.rules[k])
  ELSE ~RuleOptional(ruleOrRules.rule) /\ ~isWildcardRule(ruleOrRules.rule)

\* Variant: a mandatory rule without a match ends the rule loop in mode
\* optional as well.
OptionalRuleNotFoundBreaks ==
  /\ pc = "optional"
  /\ ruleIndex < Len(curRules)
  /\ ScanForward(curFiles, currentFileIndex, curRules[ruleIndex + 1],
                 usedFlexibleRules, ruleIndex) < 0
  /\ IF IsMandatory(curRules[ruleIndex + 1])
     THEN pc' = "optional-break" /\ UNCHANGED ruleIndex
     ELSE pc' = pc /\ ruleIndex' = ruleIndex + 1
  /\ UNCHANGED <<fileIndex, usedFlexibleRules, usedStandaloneRules, matchedFileIndices,
                 currentFileIndex, lastMatchedIndex, lastMatchedRule, mapped,
                 wildcardMatched, unmapped, optionalFiles>>
  /\ UNCHANGED outerVars

OptionalRuleNotFound ==
  /\ pc = "optional"
  /\ ruleIndex < Len(curRules)
  /\ ScanForward(curFiles, currentFileIndex, curRules[ruleIndex + 1],
                 usedFlexibleRules, ruleIndex) < 0
  /\ IF IsMandatory(curRules[ruleIndex + 1]) /\ Mode = "strict-optional"
     THEN pc' = "optional-break" /\ UNCHANGED ruleIndex
     ELSE pc' = pc /\ ruleIndex' = ruleIndex + 1
  /\ UNCHANGED <<fileIndex, usedFlexibleRules, usedStandaloneRules, matchedFileIndices,
                 currentFileIndex, lastMatchedIndex, lastMatchedRule, mapped,
                 wildcardMatched, unmapped, optionalFiles>>
  /\ UNCHANGED outerVars

\* After the rule loop: the remaining files become optional, then return.
OptionalReturn(all) ==
  /\ optionalFiles' = all
  /\ Return(mapped, wildcardMatched, all, <<>>)

\* Variant: after the break of mode strict-optional the remaining files are
\* left out.
OptionalFinishDropsOnBreak ==
  /\ \/ pc = "optional" /\ ruleIndex >= Len(curRules)
     \/ pc = "optional-break"
  /\ OptionalReturn(IF pc = "optional-break" THEN optionalFiles
                    ELSE optionalFiles \o
                         GapEntries(curFiles, lastMatchedIndex + 1, Len(curFiles),
                                    OrStart(lastMatchedRule), "(end)"))
  /\ UNCHANGED <<earlier, request, error, caller, preFiltered, sortedFiles, curFiles, curRules>>
  /\ UNCHANGED <<fileIndex, ruleIndex, usedFlexibleRules, usedStandaloneRules,
                 matchedFileIndices, currentFileIndex, lastMatchedIndex,
                 lastMatchedRule, mapped, wildcardMatched, unmapped>>

OptionalFinish ==
  /\ \/ pc = "optional" /\ ruleIndex >= Len(curRules)
     \/ pc = "optional-break"
  /\ OptionalReturn(optionalFiles \o
                    GapEntries(curFiles, lastMatchedIndex + 1, Len(curFiles),
                               OrStart(lastMatchedRule), "(end)"))
  /\ UNCHANGED <<earlier, request, error, caller, preFiltered, sortedFiles, curFiles, curRules>>
  /\ UNCHANGED <<fileIndex, ruleIndex, usedFlexibleRules, usedStandaloneRules,
                 matchedFileIndices, currentFileIndex, lastMatchedIndex,
                 lastMatchedRule, mapped, wildcardMatched, unmapped>>

(***************************************************************************)
(* filterFilesWithGroups: the group loop and the merged result.            *)
(***************************************************************************)
\* Variant: a record that an earlier group mapped is not offered again.
GroupFilesUnclaimed(group) ==
  SelectSeq(sortedFiles,
            LAMBDA f : /\ AllPass(f.data, group.groupFilter)
                       /\ \A j \in 1..Len(merged.mapped) : merged.mapped[j].file # f)

GroupFiles(group) == SelectSeq(sortedFiles, LAMBDA f : AllPass(f.data, group.groupFilter))

GroupSkip ==
  /\ pc = "groups"
  /\ groupIndex < Len(request.groups)
  /\ GroupFiles(request.groups[groupIndex + 1]) = <<>>
  /\ groupIndex' = groupIndex + 1
  /\ UNCHANGED <<earlier, request, pc, error, caller, preFiltered, sortedFiles, merged,
                 curFiles, curRules, result>>
  /\ UNCHANGED walkVars

GroupEnter ==
  /\ pc = "groups"
  /\ groupIndex < Len(request.groups)
  /\ GroupFiles(request.groups[groupIndex + 1]) # <<>>
  /\ curFiles' = GroupFiles(request.groups[groupIndex + 1])
  /\ curRules' = request.groups[groupIndex + 1].rules
  /\ WalkReset
  /\ pc' = WalkPc(Mode)
  /\ UNCHANGED <<earlier, request, error, caller, preFiltered, sortedFiles, groupIndex,
                 merged, result>>

RECURSIVE AllGroupRules(_)
AllGroupRules(groups) ==
  IF groups = <<>> THEN <<>> ELSE Head(groups).rules \o AllGroupRules(Tail(groups))

\* Variant: the records that no group selected are returned as unmapped.
GroupsFinishReportsRest ==
  /\ pc = "groups"
  /\ groupIndex >= Len(request.groups)
  /\ result' = [mapped |-> merged.mapped,
                wildcardMatched |-> merged.wildcardMatched,
                optionalFiles |-> merged.optionalFiles,
                unmapped |-> merged.unmapped \o
                  SelectSeq([i \in 1..Len(sortedFiles) |->
                               [file |-> sortedFiles[i], attemptedRules |-> <<>>]],
                            LAMBDA e : \A g \in 1..Len(request.groups) :
                                         ~AllPass(e.file.data, request.groups[g].groupFilter)),
                preFiltered |-> preFiltered,
                stats |-> [totalFiles |-> Len(request.files),
                           mappedFiles |-> Len(merged.mapped),
                           wildcardMatchedFiles |-> Len(merged.wildcardMatched),
                           unmappedFiles |-> Len(merged.unmapped),
                           optionalFiles |-> Len(merged.optionalFiles),
                           preFilteredFiles |-> Len(preFiltered),
                           totalRules |-> countRules(AllGroupRules(request.groups)),
                           mandatoryRules |-> countMandatoryRules(AllGroupRules(request.groups)),
                           optionalRules |-> countOptionalRules(AllGroupRules(request.groups))]]
  /\ pc' = "done"
  /\ UNCHANGED <<earlier, request, error, caller, preFiltered, sortedFiles, groupIndex, merged,
                 curFiles, curRules>>
  /\ UNCHANGED walkVars

GroupsFinish ==
  /\ pc = "groups"
  /\ groupIndex >= Len(request.groups)
  /\ result' = [mapped |-> merged.mapped,
                wildcardMatched |-> merged.wildcardMatched,
                optionalFiles |-> merged.optionalFiles,
                unmapped |-> merged.unmapped,
                preFiltered |-> preFiltered,
                stats |-> [totalFiles |-> Len(request.files),
                           mappedFiles |-> Len(merged.mapped),
                           wildcardMatchedFiles |-> Len(merged.wildcardMatched),
                           unmappedFiles |-> Len(merged.unmapped),
                           optionalFiles |-> Len(merged.optionalFiles),
                           preFilteredFiles |-> Len(preFiltered),
                           totalRules |-> countRules(AllGroupRules(request.groups)),
                           mandatoryRules |-> countMandatoryRules(AllGroupRules(request.groups)),
                           optionalRules |-> countOptionalRules(AllGroupRules(request.groups))]]
  /\ pc' = "done"
  /\ UNCHANGED <<earlier, request, error, caller, preFiltered, sortedFiles, groupIndex, merged,
                 curFiles, curRules>>
  /\ UNCHANGED walkVars

(***************************************************************************)
(* The requests checked: bounded families of files, rule programs, groups  *)
(* and options.                                                            *)
(***************************************************************************)
MaxFiles == 3
MaxUnits == 2
MaxMembers == 2
MaxGroups == 2

Modes == {"strict", "optional", "strict-optional"}

Data(t) == Obj([type |-> Str(t)])
DataWithStatus(t, st) == Obj([type |-> Str(t), status |-> Str(st)])

Crit(t) == [path |-> <<KeySeg("type")>>, check |-> [value |-> Str(t)]]
StatusCrit(st) == [path |-> <<KeySeg("status")>>, check |-> [value |-> Str(st)]]

SingleRule(v, label, opt) == [match |-> <<Crit(v)>>, expected |-> label, optional |-> opt]
WildcardRule(v, greedy) == [matchAny |-> <<Crit(v)>>, greedy |-> greedy, optional |-> TRUE]

Standalone(r) == [rule |-> r]
Flexible(rs) == [rules |-> rs]

\* Files named by their position in the caller's array.
MakeFiles(ds) == [i \in 1..Len(ds) |-> [fileName |-> i - 1, data |-> ds[i]]]

SeqsUpTo(S, n) == UNION {[1..k -> S] : k \in 0..n}

FileLists(D) == {MakeFiles(ds) : ds \in SeqsUpTo(D, MaxFiles)}

PlainData == {Data(t) : t \in {"x", "y"}}
ThreeData == {Data(t) : t \in {"x", "y", "z"}}
StatusData == {DataWithStatus(t, st) : t \in {"x", "y"}, st \in {"active", "inactive"}}

\* Family 1: programs of standalone rules.
StandaloneRules ==
  {SingleRule("x", "A", FALSE), SingleRule("y", "B", FALSE),
   SingleRule("x", "C", TRUE), SingleRule("y", "", TRUE)}
  \cup {WildcardRule("x", TRUE), WildcardRule("x", FALSE), WildcardRule("y", TRUE),
        [matchAny |-> <<Crit("y")>>, optional |-> TRUE]}

StandalonePrograms ==
  {[k \in 1..Len(rs) |-> Standalone(rs[k])] : rs \in SeqsUpTo(StandaloneRules, MaxUnits)}

InitStandalone ==
  \E fs \in FileLists(PlainData), p \in StandalonePrograms, m \in Modes :
    InitWith([files |-> fs, rules |-> p, mode |-> m])

\* Family 2: a flexible group, alone or followed by one standalone rule.
MemberRules ==
  {SingleRule("x", "X", FALSE), SingleRule("y", "Y", FALSE),
   SingleRule("x", "Xo", TRUE), SingleRule("y", "Yo", TRUE),
   SingleRule("z", "Z", FALSE), WildcardRule("x", TRUE)}

FlexibleGroups == {Flexible(rs) : rs \in SeqsUpTo(MemberRules, MaxMembers) \ {<<>>}}

FlexiblePrograms ==
  {<<g>> : g \in FlexibleGroups}
    \cup {<<g, Standalone(SingleRule("x", "C", FALSE))>> : g \in FlexibleGroups}

InitFlexible ==
  \E fs \in FileLists(ThreeData), p \in FlexiblePrograms, m \in Modes :
    InitWith([files |-> fs, rules |-> p, mode |-> m])

\* Family 3: pre-filter, sort function and the default mode.
OptionPrograms ==
  {<<>>, <<Flexible(<<>>)>>,
   <<Standalone(SingleRule("x", "A", FALSE)), Standalone(SingleRule("x", "B", FALSE))>>,
   <<Standalone(WildcardRule("x", TRUE)), Standalone(SingleRule("y", "B", TRUE))>>,
   <<Flexible(<<SingleRule("y", "Y", FALSE), SingleRule("x", "X", FALSE)>>)>>,
   <<Standalone([match |-> <<StatusCrit("active"), Crit("x")>>, expected |-> "AX",
                 optional |-> FALSE]),
     Standalone([match |-> <<>>, expected |-> "E", optional |-> FALSE])>>}

PreFilters == {<<>>, <<StatusCrit("active")>>, <<StatusCrit("active"), Crit("x")>>}

Absent == <<>>

InitOptions ==
  \E fs \in FileLists(StatusData), p \in OptionPrograms,
     m \in {Absent} \cup {[mode |-> mm] : mm \in Modes},
     pf \in {Absent} \cup {[preFilter |-> f] : f \in PreFilters},
     sf \in {Absent, [sortFn |-> "byFileNameDesc"]} :
    InitWith([files |-> fs, rules |-> p] @@ m @@ pf @@ sf)

\* Family 4: groups.
GroupPrograms ==
  {<<Standalone(WildcardRule("y", TRUE)), Standalone(SingleRule("x", "A", FALSE))>>,
   <<Flexible(<<SingleRule("y", "Y", FALSE), SingleRule("x", "X", TRUE)>>)>>}

\* The last group's filter is satisfied by no record of the family.
Groups ==
  {[groupFilter |-> gf, rules |-> p] : gf \in {<<>>, <<Crit("x")>>}, p \in GroupPrograms}
    \cup {[groupFilter |-> <<Crit("z")>>,
           rules |-> <<Standalone(SingleRule("x", "A", FALSE))>>]}

InitGroups ==
  \E fs \in FileLists(PlainData), gs \in SeqsUpTo(Groups, MaxGroups),
     m \in Modes, pf \in {Absent, [preFilter |-> <<Crit("x")>>]},
     sf \in {Absent, [sortFn |-> "byFileNameDesc"]} :
    InitWith([files |-> fs, groups |-> gs, mode |-> m] @@ pf @@ sf)

\* Family 5: requests with both or neither of rules and groups.
InitInvalid ==
  \/ \E fs \in FileLists(PlainData), m \in Modes : InitWith([files |-> fs, mode |-> m])
  \/ \E fs \in FileLists(PlainData),
        p \in {<<>>, <<Standalone(WildcardRule("x", TRUE))>>},
        gs \in SeqsUpTo(Groups, 1) :
       InitWith([files |-> fs, rules |-> p, groups |-> gs])

Init == InitStandalone \/ InitFlexible \/ InitOptions \/ InitGroups \/ InitInvalid

Next ==
  \/ RejectBoth
  \/ RejectNeither
  \/ EnterGroups
  \/ EnterFlat
  \/ StrictNoMoreRules
  \/ StrictFlexibleGroup
  \/ StrictStandalone
  \/ StrictFinish
  \/ OptionalRuleFound
  \/ OptionalRuleNotFound
  \/ OptionalFinish
  \/ GroupSkip
  \/ GroupEnter
  \/ GroupsFinish

Spec == Init /\ [][Next]_vars

\* The requests that supply a flat rule program, and the steps they take.
InitRules == InitStandalone \/ InitFlexible \/ InitOptions

NextRules ==
  \/ EnterFlat
  \/ StrictNoMoreRules
  \/ StrictFlexibleGroup
  \/ StrictStandalone
  \/ StrictFinish
  \/ OptionalRuleFound
  \/ OptionalRuleNotFound
  \/ OptionalFinish

SpecRules == InitRules /\ [][NextRules]_vars

(***************************************************************************)
(* Several invocations in a row.  A returned (or failed) call is followed  *)
(* by another one on the same Matcher: whatever the previous call left in  *)
(* its locals is still there when the next one starts.                     *)
(***************************************************************************)
MaxCalls == 3

\* What a caller may run between two invocations with equal arguments.
Intervening ==
  {[files |-> MakeFiles(<<Data("x"), Data("y")>>),
    rules |-> <<Flexible(<<SingleRule("y", "Y", FALSE), SingleRule("x", "X", FALSE)>>),
                Standalone(SingleRule("x", "A", FALSE))>>,
    mode |-> "strict"],
   [files |-> MakeFiles(<<Data("y"), Data("x"), Data("x")>>),
    rules |-> <<Standalone(WildcardRule("y", TRUE)), Standalone(SingleRule("x", "B", FALSE))>>,
    mode |-> "optional"]}

\* The next invocation: after the first call any of the intervening requests
\* or the same arguments again, afterwards the arguments of the first call.
Reinvoke ==
  /\ pc \in {"done", "error"}
  /\ earlier.calls + 1 < MaxCalls
  /\ \E next \in (IF earlier.calls = 0 THEN {request} \cup Intervening
                  ELSE {earlier.request}) :
       request' = next
  /\ earlier' = IF earlier.calls = 0
                THEN [calls |-> 1, request |-> request, result |-> result, error |-> error]
                ELSE [earlier EXCEPT !.calls = @ + 1]
  /\ pc' = "call"
  /\ result' = NoResult
  /\ error' = NoError
  /\ UNCHANGED <<caller, preFiltered, sortedFiles, groupIndex, merged, curFiles, curRules>>
  /\ UNCHANGED walkVars

InitCalls ==
  \/ \E fs \in FileLists(PlainData), p \in OptionPrograms, m \in Modes :
       InitWith([files |-> fs, rules |-> p, mode |-> m])
  \/ \E fs \in FileLists(PlainData), gs \in SeqsUpTo(Groups, 1), m \in Modes :
       InitWith([files |-> fs, groups |-> gs, mode |-> m])
  \/ \E fs \in FileLists(PlainData) : InitWith([files |-> fs])
  \/ \E fs \in FileLists(PlainData) : InitWith([files |-> fs, rules |-> <<>>, groups |-> <<>>])

NextCalls ==
  \/ RejectBoth
  \/ RejectNeither
  \/ EnterGroups
  \/ EnterFlat
  \/ StrictNoMoreRules
  \/ StrictFlexibleGroup
  \/ StrictStandalone
  \/ StrictFinish
  \/ OptionalRuleFound
  \/ OptionalRuleNotFound
  \/ OptionalFinish
  \/ GroupSkip
  \/ GroupEnter
  \/ GroupsFinish
  \/ Reinvoke

SpecCalls == InitCalls /\ [][NextCalls]_vars

(***************************************************************************)
(* Two invocations to compare.  A returned call on a flat rule program is  *)
(* followed by a second call with the same files and options: either with  *)
(* the rule program as the rules of a single group without groupFilter, or *)
(* with the other one of the modes optional and strict-optional.           *)
(***************************************************************************)
\* The request without one of its fields.
Without(req, field) == [k \in DOMAIN req \ {field} |-> req[k]]

Grouped(req) ==
  Without(req, "rules") @@ [groups |-> <<[groupFilter |-> <<>>, rules |-> req.rules]>>]

OtherMode(req) ==
  Without(req, "mode") @@
    [mode |-> IF req.mode = "optional" THEN "strict-optional" ELSE "optional"]

InvokeWith(next) ==
  /\ request' = next
  /\ earlier' = [calls |-> 1, request |-> request, result |-> result, error |-> error]
  /\ pc' = "call"
  /\ result' = NoResult
  /\ error' = NoError
  /\ UNCHANGED <<caller, preFiltered, sortedFiles, groupIndex, merged, curFiles, curRules>>
  /\ UNCHANGED walkVars

InvokeGrouped ==
  /\ pc = "done" /\ earlier.calls = 0
  /\ HasRules
  /\ InvokeWith(Grouped(request))

InvokeOtherMode ==
  /\ pc = "done" /\ earlier.calls = 0
  /\ HasRules /\ Mode \in {"optional", "strict-optional"}
  /\ InvokeWith(OtherMode(request))

\* The flat requests of families 1 and 3, and those of one flexible group.
InitPairs ==
  \/ InitStandalone
  \/ InitOptions
  \/ \E fs \in FileLists(PlainData), g \in FlexibleGroups, m \in Modes :
       InitWith([files |-> fs, rules |-> <<g>>, mode |-> m])

NextPairs ==
  \/ EnterGroups
  \/ EnterFlat
  \/ StrictNoMoreRules
  \/ StrictFlexibleGroup
  \/ StrictStandalone
  \/ StrictFinish
  \/ OptionalRuleFound
  \/ OptionalRuleNotFound
  \/ OptionalFinish
  \/ GroupSkip
  \/ GroupEnter
  \/ GroupsFinish
  \/ InvokeGrouped
  \/ InvokeOtherMode

SpecPairs == InitPairs /\ [][NextPairs]_vars

(***************************************************************************)
(* Criterion evaluation on its own: strict walks of one rule with one      *)
(* criterion, over every check type, on paths that resolve and paths that  *)
(* do not.                                                                 *)
(***************************************************************************)
MaxCriterionFiles == 2

CriterionData ==
  {Obj([v |-> Str("x")]), Obj([v |-> Num(1)]), Obj([v |-> Str("2024-06-01")]),
   Obj([v |-> Arr(<<Str("x")>>)]), Obj([v |-> Null]), Obj([v |-> Undefined]),
   Obj([other |-> Str("x")]), Null}

CriterionPaths ==
  {<<>>, <<KeySeg("v")>>, <<KeySeg("v"), IdxSeg(0), KeySeg("w")>>}
  \cup {<<KeySeg("v"), step>> :
          step \in {IdxSeg(0), IdxSeg(-1), IdxSeg(1), FracSeg(0),
                    KeySeg("0"), KeySeg("x"), KeySeg("0.5")}}

CriterionChecks ==
  {[value |-> Str("x")], [value |-> Undefined],
   [exists |-> TRUE], [exists |-> FALSE],
   [itemExists |-> TRUE, item |-> Str("x")], [itemExists |-> FALSE, item |-> Str("x")],
   [type |-> "equal", size |-> 1], [type |-> "lessThan", size |-> 1],
   [type |-> "greaterThan", size |-> 0],
   [min |-> Str("2024-01-01"), max |-> Str("2024-12-31")],
   [min |-> Str("0"), max |-> Str("2")],
   [min |-> Str("soon"), max |-> Str("later")],
   [min |-> Num(0), max |-> Num(2)],
   [oneOf |-> <<Str("x"), Num(1)>>],
   [unknownCheck |-> Str("x")]}

CriterionFiles ==
  {MakeFiles(ds) : ds \in SeqsUpTo(CriterionData, MaxCriterionFiles) \ {<<>>}}

\* The criteria lists: one criterion, or one after an Exists(false) test of
\* the same path.
CriteriaLists ==
  {<<[path |-> p, check |-> c]>> : p \in CriterionPaths, c \in CriterionChecks}
  \cup {<<[path |-> p, check |-> [exists |-> FALSE]], [path |-> p, check |-> c]>> :
          p \in CriterionPaths, c \in CriterionChecks}

InitCriteria ==
  \E fs \in CriterionFiles, cs \in CriteriaLists :
    InitWith([files |-> fs,
              rules |-> <<Standalone([match |-> cs, expected |-> "A",
                                      optional |-> FALSE])>>,
              mode |-> "strict"])

NextCriteria ==
  \/ EnterFlat
  \/ StrictNoMoreRules
  \/ StrictStandalone
  \/ StrictFinish

SpecCriteria == InitCriteria /\ [][NextCriteria]_vars

(***************************************************************************)
(* Notions the claims are stated with.                                     *)
(***************************************************************************)
Done == pc = "done"
OptionalModes == {"optional", "strict-optional"}
SuppliesRules == "rules" \in DOMAIN request
SuppliesGroups == "groups" \in DOMAIN request

\* Names of the records held by a bucket of file-carrying entries.
FileNames(entries) == [k \in 1..Len(entries) |-> entries[k].file.fileName]
OptionalNames(entries) == [k \in 1..Len(entries) |-> entries[k].fileName]
Occurrences(names, n) == Cardinality({k \in 1..Len(names) : names[k] = n})

\* Every input record is named exactly once by the list of names.
EachRecordOnce(names) ==
  /\ Len(names) = Len(request.files)
  /\ \A i \in 1..Len(request.files) : Occurrences(names, request.files[i].fileName) = 1

\* C1: in mode strict every input record is in exactly one of mapped,
\* wildcardMatched, unmapped, preFiltered exactly once, the four sizes add up to
\* the number of input records, and optionalFiles is empty.
C1_StrictPartition ==
  (Done /\ Mode = "strict") =>
    /\ EachRecordOnce(FileNames(result.mapped) \o FileNames(result.wildcardMatched)
                        \o FileNames(result.unmapped) \o FileNames(result.preFiltered))
    /\ Len(result.mapped) + Len(result.wildcardMatched) + Len(result.unmapped)
         + Len(result.preFiltered) = Len(request.files)
    /\ result.optionalFiles = <<>>

AtMostOncePerRule(entries) ==
  \A i, j \in 1..Len(entries) : entries[i].at = entries[j].at => i = j

\* C3: in every mode a SingleRule instance (standalone or member of a
\* flexible group, of the flat program or of a group's program) produces at
\* most one entry of mapped.
C3_SingleRuleOnce ==
  /\ AtMostOncePerRule(mapped)
  /\ AtMostOncePerRule(merged.mapped)
  /\ Done => AtMostOncePerRule(result.mapped)

\* Two records satisfy the rule of one mapped entry; one of them is a record
\* the rule did not take.
C3_Witness ==
  /\ Done
  /\ \E k \in 1..Len(result.mapped) : \E i \in 1..Len(request.files) :
       /\ request.files[i].fileName # result.mapped[k].file.fileName
       /\ matchFile(request.files[i], result.mapped[k].matchResult.rule).matched
       /\ \A j \in 1..Len(result.mapped) :
            result.mapped[j].file.fileName # request.files[i].fileName

\* C4: a standalone greedy wildcard absorbs every consecutive matching
\* record, in every mode: once the call has returned, the record right after
\* a record the rule emitted to wildcardMatched either does not match the
\* rule or was emitted by the same rule as well.
C4_GreedyAbsorbs ==
  (Done /\ caller = "flat") =>
    \A k \in 1..Len(wildcardMatched) :
      (wildcardMatched[k].at[3] = -1 /\ Greedy(wildcardMatched[k].matchResult.rule)) =>
        \A i \in 1..(Len(curFiles) - 1) :
          (/\ curFiles[i] = wildcardMatched[k].file
           /\ matchFile(curFiles[i + 1], wildcardMatched[k].matchResult.rule).matched)
            => \E j \in 1..Len(wildcardMatched) :
                 /\ wildcardMatched[j].file = curFiles[i + 1]
                 /\ wildcardMatched[j].at = wildcardMatched[k].at

\* Nothing was pre-filtered, sorted or matched and nothing was returned.
Untouched ==
  /\ result = NoResult
  /\ preFiltered = <<>> /\ sortedFiles = <<>> /\ curFiles = <<>>
  /\ mapped = <<>> /\ wildcardMatched = <<>> /\ unmapped = <<>> /\ optionalFiles = <<>>
  /\ merged = EmptyBuckets

\* C5: filterFiles(request) throws, before any pre-filtering, sorting or
\* matching and without a result, exactly when the request supplies both
\* rules and groups or neither; with exactly one of them (even an empty
\* list) no usage error is raised.
C5_UsageError ==
  /\ (SuppliesRules = SuppliesGroups) => (pc \in {"call", "error"} /\ Untouched)
  /\ (SuppliesRules # SuppliesGroups) => (pc # "error" /\ error = NoError)
  /\ pc = "error" => error # NoError

C5_Witness ==
  /\ pc = "error"
  /\ SuppliesRules /\ SuppliesGroups
  /\ request.rules # <<>> /\ request.files # <<>>

(***************************************************************************)
(* Flexible groups (C6, C7).                                               *)
(***************************************************************************)
\* The members (1-based) of a group whose criteria the record satisfies.
MembersMatching(group, file) ==
  {k \in 1..Len(group) : matchFile(file, group[k]).matched}

\* The records (1-based positions among files) satisfying member k.
RecordsMatching(group, k, files) ==
  {i \in 1..Len(files) : matchFile(files[i], group[k]).matched}

\* All members are SingleRules and no record satisfies two of them.
DisjointSingles(group, files) ==
  /\ Len(group) >= 1
  /\ \A k \in 1..Len(group) : isSingleMatchRule(group[k])
  /\ \A i \in 1..Len(files) : Cardinality(MembersMatching(group, files[i])) <= 1

\* The flat program starts with a flexible group.
StartsWithGroup == caller = "flat" /\ Len(curRules) >= 1 /\ IsArray(curRules[1])

\* C6: in mode optional, a flexible group of n SingleRule members with
\* disjoint criteria, met by n records each matching a distinct member
\* (interleaved with records matching none), maps all n records, each to its
\* member and in record order, and emits only non-matching records to
\* optionalFiles.
C6_OptionalGroupAllMembers ==
  (/\ Done /\ Mode = "optional" /\ StartsWithGroup
   /\ DisjointSingles(curRules[1].rules, curFiles)
   /\ \A k \in 1..Len(curRules[1].rules) :
        Cardinality(RecordsMatching(curRules[1].rules, k, curFiles)) = 1)
  =>
   /\ \A i \in 1..Len(curFiles) : \A k \in MembersMatching(curRules[1].rules, curFiles[i]) :
        \E j \in 1..Len(result.mapped) :
          /\ result.mapped[j].file = curFiles[i]
          /\ result.mapped[j].at = <<-1, 0, k - 1>>
   /\ \A e \in 1..Len(result.optionalFiles) :
        MembersMatching(curRules[1].rules, curFiles[result.optionalFiles[e].position + 1]) = {}

\* The first n records match the n mandatory members of the leading group,
\* one record per member.
GroupMetInAnyOrder ==
  /\ StartsWithGroup
  /\ DisjointSingles(curRules[1].rules, curFiles)
  /\ \A k \in 1..Len(curRules[1].rules) : ~RuleOptional(curRules[1].rules[k])
  /\ Len(curFiles) >= Len(curRules[1].rules)
  /\ \A k \in 1..Len(curRules[1].rules) :
       \E i \in 1..Len(curRules[1].rules) : k \in MembersMatching(curRules[1].rules, curFiles[i])

\* C7: in mode strict, when the next n records each match a distinct one of
\* the n mandatory, pairwise disjoint SingleRule members of a flexible group,
\* in whatever order, then once the walk is past those records the i-th entry
\* of mapped is the i-th record at the member it matches, none of the n records
\* is unmapped and the rule cursor is past the group.
C7_StrictFlexibleAnyOrder ==
  (/\ pc \in {"strict", "done"} /\ Mode = "strict" /\ GroupMetInAnyOrder
   /\ fileIndex >= Len(curRules[1].rules))
  =>
   /\ Len(mapped) >= Len(curRules[1].rules)
   /\ \A i \in 1..Len(curRules[1].rules) :
        /\ mapped[i].file = curFiles[i]
        /\ \A k \in MembersMatching(curRules[1].rules, curFiles[i]) :
             /\ mapped[i].at = <<-1, 0, k - 1>>
             /\ mapped[i].expected = curRules[1].rules[k].expected
        /\ \A u \in 1..Len(unmapped) : unmapped[u].file # curFiles[i]
   /\ ruleIndex >= 1

\* A group of two members met in the reverse of the member order.
C7_Witness ==
  /\ Done /\ Mode = "strict" /\ GroupMetInAnyOrder
  /\ Len(curRules[1].rules) = 2
  /\ MembersMatching(curRules[1].rules, curFiles[1]) = {2}
  /\ Len(result.mapped) >= 2

(***************************************************************************)
(* Sequential exhaustion (C8).                                             *)
(***************************************************************************)
Min(a, b) == IF a <= b THEN a ELSE b

\* A flat program of mandatory standalone SingleRules with the criteria of
\* the first one, and records that all satisfy them.
IdenticalRulesAllMatch ==
  /\ caller = "flat"
  /\ Len(curRules) >= 1
  /\ \A k \in 1..Len(curRules) :
       /\ ~IsArray(curRules[k])
       /\ isSingleMatchRule(curRules[k].rule)
       /\ ~RuleOptional(curRules[k].rule)
       /\ curRules[k].rule.match = curRules[1].rule.match
  /\ \A i \in 1..Len(curFiles) : matchFile(curFiles[i], curRules[1].rule).matched

\* C8: in mode strict, with m mandatory SingleRules of identical criteria
\* and n records that all match, the i-th record is mapped to the i-th rule
\* for i <= min(n, m), and the remaining n - m records are unmapped in record
\* order.
C8_SequentialExhaustion ==
  (Done /\ Mode = "strict" /\ IdenticalRulesAllMatch)
  =>
   /\ Len(result.mapped) = Min(Len(curFiles), Len(curRules))
   /\ \A i \in 1..Min(Len(curFiles), Len(curRules)) :
        /\ result.mapped[i].file = curFiles[i]
        /\ result.mapped[i].at = <<-1, i - 1, -1>>
        /\ result.mapped[i].expected = curRules[i].rule.expected
   /\ FileNames(result.unmapped)
        = [k \in 1..(Len(curFiles) - Min(Len(curFiles), Len(curRules))) |->
             curFiles[Len(curRules) + k].fileName]
   /\ result.wildcardMatched = <<>>

\* More records than rules, and more than one rule.
C8_Witness ==
  /\ Done /\ Mode = "strict" /\ IdenticalRulesAllMatch
  /\ Len(curRules) >= 2
  /\ Len(curFiles) > Len(curRules)
  /\ Len(result.mapped) = Len(curRules)

(***************************************************************************)
(* The between context of optional files (C9).                             *)
(***************************************************************************)
\* A Matcher.filterFiles call has returned and its locals are as it left them.
WalkOver == pc \in {"done", "groups"} /\ curFiles # <<>>

\* The record at position p (0-based) of the walk was matched by a rule.
MappedAt(p) == \E j \in 1..Len(mapped) : mapped[j].file = curFiles[p + 1]
WildcardAt(p) == \E j \in 1..Len(wildcardMatched) : wildcardMatched[j].file = curFiles[p + 1]
MatchedAt(p) == MappedAt(p) \/ WildcardAt(p)

ExpectedAt(p) == (CHOOSE e \in {mapped[j] : j \in 1..Len(mapped)} : e.file = curFiles[p + 1]).expected

EarlierMatched(p) == {q \in 0..(p - 1) : MatchedAt(q)}
LaterMatched(p) == {q \in (p + 1)..(Len(curFiles) - 1) : MatchedAt(q)}
Closest(S, p) == CHOOSE q \in S : \A r \in S : (IF r > p THEN r - p ELSE p - r) >= (IF q > p THEN q - p ELSE p - q)

\* A WildcardRule has no expected label.
NoLabel == "undefined"

\* The label of the closest matched record among S, or the sentinel.
NeighbourLabel(S, p, sentinel, wildcardLabel) ==
  IF S = {} THEN sentinel
  ELSE IF MappedAt(Closest(S, p)) THEN ExpectedAt(Closest(S, p))
  ELSE wildcardLabel

\* Every unmatched record of the walk has exactly one optionalFiles entry,
\* which carries its position.
UnmatchedAreOptional ==
  /\ \A p \in 0..(Len(curFiles) - 1) :
       MatchedAt(p) <=> (\A e \in 1..Len(optionalFiles) : optionalFiles[e].position # p)
  /\ \A e, f \in 1..Len(optionalFiles) :
       optionalFiles[e].position = optionalFiles[f].position => e = f
  /\ \A e \in 1..Len(optionalFiles) :
       /\ optionalFiles[e].position \in 0..(Len(curFiles) - 1)
       /\ optionalFiles[e].fileName = curFiles[optionalFiles[e].position + 1].fileName

AfterLabel(label) == IF label = "" THEN "(start)" ELSE label

MandatoryUnit(unit) ==
  IF IsArray(unit)
  THEN \E k \in 1..Len(unit.rules) :
         isSingleMatchRule(unit.rules[k]) /\ ~RuleOptional(unit.rules[k])
  ELSE isSingleMatchRule(unit.rule) /\ ~RuleOptional(unit.rule)

\* The record satisfies the unit (some member of it, for a group).
UnitMatches(unit, file) ==
  IF IsArray(unit) THEN MembersMatching(unit.rules, file) # {}
  ELSE matchFile(file, unit.rule).matched

\* The unit at 0-based index u emitted an entry.
UnitEmitted(u) ==
  \/ \E j \in 1..Len(mapped) : mapped[j].at[2] = u
  \/ \E j \in 1..Len(wildcardMatched) : wildcardMatched[j].at[2] = u

\* C10: in mode strict-optional, when a mandatory rule unit matched no
\* record from the record cursor onward, the walk ends there: no record from
\* the cursor onward satisfies that unit, no later unit emitted an entry, every
\* record from the cursor onward is in optionalFiles with beforeRule (end),
\* unmapped is empty and no error is raised; a walk in which every mandatory
\* unit found its record visits all units.
C10_StrictOptionalBreak ==
  (WalkOver /\ Mode = "strict-optional") =>
    /\ unmapped = <<>> /\ error = NoError /\ pc # "error"
    /\ \A u \in 0..(Len(curRules) - 1) :
         (MandatoryUnit(curRules[u + 1]) /\ ~UnitEmitted(u)) =>
           /\ ruleIndex <= u
           /\ \A v \in (u + 1)..(Len(curRules) - 1) : ~UnitEmitted(v)
    /\ ruleIndex < Len(curRules) =>
         /\ MandatoryUnit(curRules[ruleIndex + 1])
         /\ ~UnitEmitted(ruleIndex)
         /\ \A p \in currentFileIndex..(Len(curFiles) - 1) :
              /\ ~UnitMatches(curRules[ruleIndex + 1], curFiles[p + 1])
              /\ \E e \in 1..Len(optionalFiles) :
                   /\ optionalFiles[e].position = p
                   /\ optionalFiles[e].between.beforeRule = "(end)"

\* The walk broke off although a later unit is satisfied by a record from
\* the cursor onward.
C10_Witness ==
  /\ WalkOver /\ Mode = "strict-optional"
  /\ ruleIndex < Len(curRules)
  /\ \E v \in (ruleIndex + 1)..(Len(curRules) - 1) :
       \E p \in currentFileIndex..(Len(curFiles) - 1) :
         UnitMatches(curRules[v + 1], curFiles[p + 1])

(***************************************************************************)
(* The pre-filter (C11).                                                   *)
(***************************************************************************)
GivesPreFilter == "preFilter" \in DOMAIN request

\* The preFilter criteria that evaluate false on the data.
FailingCriteria(data) ==
  {k \in 1..Len(request.preFilter) : ~evaluateCriterion(data, request.preFilter[k]).status}

\* The results of the failing criteria, in criterion order.
RECURSIVE FailingResults(_, _)
FailingResults(data, k) ==
  IF k > Len(request.preFilter) THEN <<>>
  ELSE (IF k \in FailingCriteria(data)
        THEN <<evaluateCriterion(data, request.preFilter[k])>> ELSE <<>>)
       \o FailingResults(data, k + 1)

\* The names of the records a list of files or of file-carrying entries holds.
NamesIn(files) == {files[k].fileName : k \in 1..Len(files)}
EntryNames(entries) == {entries[k].file.fileName : k \in 1..Len(entries)}
Excluded == {request.files[i].fileName : i \in {j \in 1..Len(request.files) :
                                                  FailingCriteria(request.files[j].data) # {}}}

\* C11: with preFilter criteria given, a record is in preFiltered exactly
\* when at least one criterion evaluates false on its data, its failedChecks
\* are exactly the results of the failing criteria, and in every mode it is
\* never among the records offered to a rule or a group filter, nor in any
\* other bucket.
C11_PreFilter ==
  (GivesPreFilter /\ pc \notin {"call", "error"}) =>
    /\ EntryNames(preFiltered) = Excluded
    /\ \A k \in 1..Len(preFiltered) :
         preFiltered[k].failedChecks = FailingResults(preFiltered[k].file.data, 1)
    /\ \A i, j \in 1..Len(preFiltered) :
         preFiltered[i].file.fileName = preFiltered[j].file.fileName => i = j
    /\ NamesIn(sortedFiles) \cap Excluded = {}
    /\ NamesIn(curFiles) \cap Excluded = {}
    /\ (EntryNames(mapped) \cup EntryNames(wildcardMatched) \cup EntryNames(unmapped)
          \cup NamesIn(optionalFiles)) \cap Excluded = {}
    /\ (EntryNames(merged.mapped) \cup EntryNames(merged.wildcardMatched)
          \cup EntryNames(merged.unmapped) \cup NamesIn(merged.optionalFiles))
         \cap Excluded = {}
    /\ Done =>
         /\ result.preFiltered = preFiltered
         /\ (EntryNames(result.mapped) \cup EntryNames(result.wildcardMatched)
               \cup EntryNames(result.unmapped) \cup NamesIn(result.optionalFiles))
              \cap Excluded = {}

\* One of two criteria fails on an excluded record that a rule of the program
\* would have matched, while another record is mapped.
C11_Witness ==
  /\ Done /\ GivesPreFilter /\ SuppliesRules
  /\ Len(request.preFilter) = 2
  /\ result.mapped # <<>>
  /\ \E k \in 1..Len(result.preFiltered) :
       /\ Len(result.preFiltered[k].failedChecks) = 1
       /\ \E u \in 1..Len(request.rules) :
            UnitMatches(request.rules[u], result.preFiltered[k].file)

(***************************************************************************)
(* Statistics (C12).                                                       *)
(***************************************************************************)
\* C12: in every mode, for rules and for groups, the returned stats equal
\* the sizes of the returned buckets, and totalFiles is the number of input
\* records, the pre-filtered ones included.
C12_StatsMatchBuckets ==
  Done =>
    /\ result.stats.mappedFiles = Len(result.mapped)
    /\ result.stats.wildcardMatchedFiles = Len(result.wildcardMatched)
    /\ result.stats.unmappedFiles = Len(result.unmapped)
    /\ result.stats.optionalFiles = Len(result.optionalFiles)
    /\ result.stats.preFilteredFiles = Len(result.preFiltered)
    /\ result.stats.totalFiles = Len(request.files)

\* A result with pre-filtered, mapped and optional records.
C12_Witness ==
  /\ Done
  /\ result.preFiltered # <<>> /\ result.mapped # <<>> /\ result.optionalFiles # <<>>
  /\ result.stats.totalFiles > result.stats.mappedFiles + result.stats.optionalFiles

(***************************************************************************)
(* Caller-owned input (C13).                                               *)
(***************************************************************************)
\* C13: no step of Matcher.filterFiles or Matcher.filterFilesWithGroups
\* changes the caller's request: the files array keeps its elements and their
\* order, also when a sortFn is given, and the rule program or groups stay as
\* they were.
C13_InputUnchanged == [][request' = request]_vars

\* A call has returned whose sortFn put the records in another order than the
\* caller's, with no preFilter making a copy first.
C13_Witness ==
  /\ Done
  /\ "sortFn" \in DOMAIN request /\ ~GivesPreFilter
  /\ Len(request.files) >= 2
  /\ sortedFiles # request.files
  /\ NamesIn(sortedFiles) = NamesIn(request.files)

(***************************************************************************)
(* No state across invocations (C14).                                      *)
(***************************************************************************)
\* C14: the outcome of an invocation depends only on its arguments: an
\* invocation with the arguments of the first one returns the result (or
\* raises the error) the first one did, whatever ran in between on the same
\* Matcher and whatever cursors and consumed-sets those calls left behind.
C14_NoCrossCallState ==
  (pc \in {"done", "error"} /\ earlier.calls >= 1 /\ request = earlier.request) =>
    /\ result = earlier.result
    /\ error = earlier.error

\* The first call's arguments ran a third time, on a Matcher whose earlier
\* calls consumed rules and moved cursors, and mapped records again.
C14_Witness ==
  /\ Done /\ earlier.calls = 2
  /\ request = earlier.request
  /\ result.mapped # <<>>
  /\ usedStandaloneRules # {} \/ usedFlexibleRules # <<>>

(***************************************************************************)
(* Non-greedy wildcards (C15).                                             *)
(***************************************************************************)
\* The greedy flag of the wildcard is false or omitted.
GreedyFalseOrOmitted(rule) == "greedy" \notin DOMAIN rule \/ ~rule.greedy

\* No two entries come from the same wildcard whose greedy flag is false or
\* omitted.
NonGreedyOnce(entries) ==
  \A i, j \in 1..Len(entries) :
    (entries[i].at = entries[j].at /\ GreedyFalseOrOmitted(entries[i].matchResult.rule))
      => i = j

\* The strict walk is at a standalone wildcard, greedy false or omitted, that
\* the current record matches.
AtMatchingNonGreedy ==
  /\ pc = "strict"
  /\ fileIndex < Len(curFiles) /\ ruleIndex < Len(curRules)
  /\ ~IsArray(curRules[ruleIndex + 1])
  /\ isWildcardRule(curRules[ruleIndex + 1].rule)
  /\ GreedyFalseOrOmitted(curRules[ruleIndex + 1].rule)
  /\ matchFile(curFiles[fileIndex + 1], curRules[ruleIndex + 1].rule).matched

\* C15: a WildcardRule with greedy false or omitted emits at most one
\* record per run, and in mode strict the step at such a wildcard that the
\* current record matches appends that record to wildcardMatched and advances
\* both cursors, so the next record meets the following rule unit.
C15_NonGreedyOnce ==
  /\ [](NonGreedyOnce(wildcardMatched) /\ NonGreedyOnce(merged.wildcardMatched))
  /\ [][AtMatchingNonGreedy =>
          /\ Len(wildcardMatched') = Len(wildcardMatched) + 1
          /\ wildcardMatched'[Len(wildcardMatched')].file = curFiles[fileIndex + 1]
          /\ SubSeq(wildcardMatched', 1, Len(wildcardMatched)) = wildcardMatched
          /\ mapped' = mapped /\ unmapped' = unmapped
          /\ fileIndex' = fileIndex + 1
          /\ ruleIndex' = ruleIndex + 1]_vars

\* A non-greedy wildcard took one record although the next record matches it
\* too, and the following rule mapped that record.
C15_Witness ==
  /\ Done /\ Mode = "strict" /\ caller = "flat"
  /\ \E k \in 1..Len(wildcardMatched) : \E i \in 1..(Len(curFiles) - 1) :
       /\ GreedyFalseOrOmitted(wildcardMatched[k].matchResult.rule)
       /\ wildcardMatched[k].file = curFiles[i]
       /\ matchFile(curFiles[i + 1], wildcardMatched[k].matchResult.rule).matched
       /\ \E j \in 1..Len(mapped) :
            mapped[j].file = curFiles[i + 1] /\ mapped[j].at[2] = wildcardMatched[k].at[2] + 1

(***************************************************************************)
(* The trace of failed attempts (C16, C17).                                *)
(***************************************************************************)
\* The program of the walk holds standalone rules only.
StandaloneOnly == \A u \in 1..Len(curRules) : ~IsArray(curRules[u])

\* A standalone rule the strict walk skips when it fails on a record.
Skippable(unit) == RuleOptional(unit.rule) \/ isWildcardRule(unit.rule)

\* The units (0-based) the strict walk tries against the first record when
\* none of them takes it: every unit up to and including the first one that
\* is not skippable.
TriedOnFirst ==
  {j \in 0..(Len(curRules) - 1) : \A i \in 0..(j - 1) : Skippable(curRules[i + 1])}

\* C16, for the first record of a strict walk over standalone rules, where
\* the rules tried against it are known from the program: when that record is
\* unmapped, attemptedRules holds one MatchResult, with all its checks, for
\* every rule tried against it, the optional and wildcard rules that failed
\* on it and were skipped included.
C16_AttemptedRulesComplete ==
  (/\ Mode = "strict" /\ pc \in {"strict", "done", "groups"}
   /\ StandaloneOnly
   /\ curFiles # <<>> /\ unmapped # <<>>
   /\ unmapped[1].file = curFiles[1])
  =>
   /\ \A j \in TriedOnFirst :
        \E m \in 1..Len(unmapped[1].attemptedRules) :
          unmapped[1].attemptedRules[m] = matchFile(curFiles[1], curRules[j + 1].rule)
   /\ Len(unmapped[1].attemptedRules) = Cardinality(TriedOnFirst)

\* The standalone rule (if any) whose match closed the gap the optional
\* entry lies in: the rule of the closest later matched record.
ClosingEntries(p) ==
  {e \in {mapped[j] : j \in 1..Len(mapped)}
         \cup {wildcardMatched[j] : j \in 1..Len(wildcardMatched)} :
     /\ LaterMatched(p) # {}
     /\ e.file = curFiles[Closest(LaterMatched(p), p) + 1]
     /\ e.at[3] = -1}

\* C17: every entry of optionalFiles carries in failedMatches the failed
\* MatchResult of each rule attempted against its record during the scan; a
\* record skipped before a match was attempted by the rule that matched next.
C17_FailedMatchesRecorded ==
  (WalkOver /\ Mode \in OptionalModes) =>
    \A k \in 1..Len(optionalFiles) :
      \A e \in ClosingEntries(optionalFiles[k].position) :
        \E m \in 1..Len(optionalFiles[k].failedMatches) :
          optionalFiles[k].failedMatches[m]
            = matchFile(curFiles[optionalFiles[k].position + 1], e.matchResult.rule)

(***************************************************************************)
(* What mode strict-optional accepts as optional (C18).                    *)
(***************************************************************************)
\* The rules of a unit of the program.
RulesOfUnit(unit) ==
  IF IsArray(unit) THEN {unit.rules[k] : k \in 1..Len(unit.rules)} ELSE {unit.rule}

\* The optional rules of the program of the walk: optional SingleRules and
\* WildcardRules.
OptionalRulesOfProgram ==
  {r \in UNION {RulesOfUnit(curRules[u]) : u \in 1..Len(curRules)} :
     isWildcardRule(r) \/ RuleOptional(r)}

MatchesOptionalRule(file) ==
  \E r \in OptionalRulesOfProgram : matchFile(file, r).matched

CriteriaOf(rule) == IF isWildcardRule(rule) THEN rule.matchAny ELSE rule.match

\* The MatchResults the walk has recorded, each with the record it is about.
RecordedMatches ==
  {[file |-> mapped[j].file, matchResult |-> mapped[j].matchResult] :
     j \in 1..Len(mapped)}
  \cup {[file |-> wildcardMatched[j].file, matchResult |-> wildcardMatched[j].matchResult] :
          j \in 1..Len(wildcardMatched)}
  \cup UNION {{[file |-> unmapped[j].file, matchResult |-> unmapped[j].attemptedRules[m]] :
                 m \in 1..Len(unmapped[j].attemptedRules)} : j \in 1..Len(unmapped)}

\* One check result per criterion of the rule, in the order of the criteria,
\* failed criteria not ending the list; matched is their conjunction.
EveryCriterionChecked(file, matchResult) ==
  /\ Len(matchResult.checks) = Len(CriteriaOf(matchResult.rule))
  /\ \A k \in 1..Len(matchResult.checks) :
       matchResult.checks[k]
         = evaluateCriterion(file.data, CriteriaOf(matchResult.rule)[k])
  /\ matchResult.matched <=> \A k \in 1..Len(matchResult.checks) : matchResult.checks[k].status
  /\ CriteriaOf(matchResult.rule) = <<>> => matchResult.matched

\* C19: every MatchResult of matchFile lists one check per criterion of the
\* rule in order, whether or not an earlier criterion failed; matched is the
\* conjunction of the statuses; a rule with no criteria matches every record.
C19_EveryCriterionEvaluated ==
  \A r \in RecordedMatches : EveryCriterionChecked(r.file, r.matchResult)

\* A record failed the first of two criteria and both checks are listed; and
\* a rule with no criteria matched a record.
C19_Witness ==
  /\ \E r \in RecordedMatches :
       /\ Len(r.matchResult.checks) = 2
       /\ ~r.matchResult.checks[1].status
  /\ \E j \in 1..Len(mapped) :
       mapped[j].matchResult.rule.match = <<>> /\ mapped[j].matchResult.matched

(***************************************************************************)
(* Criteria on paths that do not resolve (C20).                            *)
(***************************************************************************)
\* The criterion's path does not resolve in the record's data.
Unresolved(file, criterion) == ~getValueFromPath(file.data, criterion.path).found

\* The checks recorded for criteria whose path did not resolve, each with its
\* criterion.
UnresolvedChecks ==
  UNION {{[criterion |-> CriteriaOf(r.matchResult.rule)[k],
           result |-> r.matchResult.checks[k]] :
            k \in {i \in 1..Len(r.matchResult.checks) :
                     Unresolved(r.file, CriteriaOf(r.matchResult.rule)[i])}} :
         r \in RecordedMatches}

FailsWithReason(checkResult) == ~checkResult.status /\ checkResult.reason # NoError

\* An Exists check that expects the path to be absent.
ExpectsAbsent(criterion) ==
  /\ "value" \notin DOMAIN criterion.check
  /\ "exists" \in DOMAIN criterion.check
  /\ ~criterion.check.exists

\* C20 as stated: whatever the check type, a criterion whose path does not
\* resolve evaluates to status false with a reason.
C20_UnresolvedAlwaysFails ==
  \A u \in UnresolvedChecks : FailsWithReason(u.result)

\* C20, amended: a criterion whose path does not resolve evaluates to status
\* false with a reason for every check type except an Exists check that
\* expects the path to be absent, which evaluates to status true without a
\* reason.
C20_UnresolvedFailsUnlessExpectedAbsent ==
  \A u \in UnresolvedChecks :
    IF ExpectsAbsent(u.criterion)
    THEN u.result.status /\ u.result.reason = NoError
    ELSE FailsWithReason(u.result)

\* One record, one unresolved path: the Exists(false) check passed and an
\* ArraySize check failed with a reason.
C20_Witness ==
  \E u, w \in UnresolvedChecks :
    /\ ExpectsAbsent(u.criterion) /\ u.result.status
    /\ "size" \in DOMAIN w.criterion.check /\ FailsWithReason(w.result)

(***************************************************************************)
(* Data-shape problems are evaluation failures (C21).                      *)
(***************************************************************************)
\* The check type a check object stands for.
KindOf(check) ==
  IF "value" \in DOMAIN check THEN "Value"
  ELSE IF "exists" \in DOMAIN check THEN "Exists"
  ELSE IF "itemExists" \in DOMAIN check /\ "item" \in DOMAIN check THEN "ArrayMembership"
  ELSE IF "type" \in DOMAIN check /\ "size" \in DOMAIN check THEN "ArraySize"
  ELSE IF "min" \in DOMAIN check /\ "max" \in DOMAIN check
  THEN IF check.min.kind = "number" /\ check.max.kind = "number"
       THEN "NumericRange" ELSE "TimeRange"
  ELSE IF "oneOf" \in DOMAIN check THEN "OneOf"
  ELSE "Unknown"

\* The value at the path has a type the check cannot be applied to.
TypeMismatch(value, check) ==
  \/ KindOf(check) \in {"ArrayMembership", "ArraySize"} /\ value.kind # "array"
  \/ KindOf(check) = "NumericRange" /\ value.kind # "number"
  \/ KindOf(check) = "TimeRange" /\ value.kind \notin {"string", "number"}

\* A bound of a time range, or the timestamp itself, cannot be parsed.
UnparsableBound(value, check) ==
  /\ KindOf(check) = "TimeRange"
  /\ \/ /\ value.kind = "number"
        /\ (ParseIntBound(check.min.s) = NaN \/ ParseIntBound(check.max.s) = NaN)
     \/ /\ value.kind = "string"
        /\ \/ FromISO(value.s) = NaN
           \/ FromISO(check.min.s) = NaN
           \/ FromISO(check.max.s) = NaN

ShapeProblemAt(access, check) ==
  \/ ~access.found
  \/ access.found /\ TypeMismatch(access.value, check)
  \/ access.found /\ UnparsableBound(access.value, check)
  \/ KindOf(check) = "Unknown"

\* The recorded checks of criteria that met a data-shape problem, each with
\* its criterion and the MatchResult it belongs to.
ProblemChecks ==
  UNION {{[criterion |-> CriteriaOf(r.matchResult.rule)[k],
           result |-> r.matchResult.checks[k],
           matched |-> r.matchResult.matched] :
            k \in {i \in 1..Len(r.matchResult.checks) :
                     ShapeProblemAt(getValueFromPath(r.file.data,
                                                     CriteriaOf(r.matchResult.rule)[i].path),
                                    CriteriaOf(r.matchResult.rule)[i].check)}} :
         r \in RecordedMatches}

\* The criterion evaluated to false (as 'unknown' for an unknown shape) and
\* its record failed the rule.
EvaluationFailure(p) ==
  /\ ~p.result.status
  /\ KindOf(p.criterion.check) = "Unknown" => p.result.checkType = "unknown"
  /\ ~p.matched

\* No error was raised, and a returned result accounts for every record.
RunNotAborted ==
  /\ pc # "error" /\ error = NoError
  /\ Done =>
       /\ result # NoResult
       /\ Len(result.mapped) + Len(result.wildcardMatched) + Len(result.unmapped)
            + Len(result.optionalFiles) + Len(result.preFiltered) = Len(request.files)
       /\ result.stats.totalFiles = Len(request.files)

\* C21 as stated: every criterion that meets a data-shape problem (an
\* unreachable path included, whatever the check) evaluates to status false,
\* its record fails the rule, and the run is not aborted.
C21_ShapeProblemsAlwaysFail ==
  /\ RunNotAborted
  /\ \A p \in ProblemChecks : EvaluationFailure(p)

\* C21, amended: a request with rules is never aborted by the shape of the
\* data; a criterion that meets an unreachable path, a type mismatch, an
\* unparsable bound or an unknown check shape evaluates to status false
\* (checkType 'unknown' for an unknown shape) and its record fails the rule,
\* except an Exists check that expects the path to be absent, which passes
\* on an unreachable path.
C21_ShapeProblemsNeverAbort ==
  /\ RunNotAborted
  /\ \A p \in ProblemChecks :
       IF ExpectsAbsent(p.criterion) THEN p.result.status ELSE EvaluationFailure(p)

\* A returned result whose unmapped record failed a check for a type
\* mismatch, beside a record that was mapped.
C21_Witness ==
  /\ Done /\ result.mapped # <<>> /\ result.unmapped # <<>>
  /\ \E p \in ProblemChecks :
       /\ KindOf(p.criterion.check) = "ArrayMembership"
       /\ getValueFromPath(unmapped[1].file.data, p.criterion.path).found
       /\ ~p.result.status

(***************************************************************************)
(* getValueFromPath against the path semantics of the claims (C22, C23).   *)
(***************************************************************************)
\* The integers a step denotes, as a whole number or as a decimal string.
Denoted(segment) ==
  IF IsFraction(segment) THEN {}
  ELSE IF "index" \in DOMAIN segment THEN {segment.index}
  ELSE IF segment.key = "0" THEN {0}
  ELSE IF segment.key = "1" THEN {1}
  ELSE IF segment.key = "2" THEN {2}
  ELSE IF segment.key = "-1" THEN {-1}
  ELSE {}

ValidIndex(segment, length) == \E i \in Denoted(segment) : 0 <= i /\ i < length

\* No node: a step before did not resolve.
NoNode == [kind |-> "none"]

StepResolves(node, segment) ==
  IF node.kind = "array" THEN ValidIndex(segment, Len(node.items))
  ELSE IF node.kind = "object" THEN SegToString(segment) \in DOMAIN node.fields
  ELSE FALSE

StepChild(node, segment) ==
  IF node.kind = "array"
  THEN node.items[(CHOOSE i \in Denoted(segment) : TRUE) + 1]
  ELSE node.fields[SegToString(segment)]

\* The node reached after the first k steps of the path.
RECURSIVE NodeAfter(_, _, _)
NodeAfter(tree, path, k) ==
  IF k = 0 THEN tree
  ELSE IF StepResolves(NodeAfter(tree, path, k - 1), path[k])
  THEN StepChild(NodeAfter(tree, path, k - 1), path[k])
  ELSE NoNode

\* The length of the longest prefix of the path that resolves.
ResolvedLen(tree, path) ==
  Cardinality({k \in 1..Len(path) : NodeAfter(tree, path, k) # NoNode})

\* validPath names the same steps as the prefix of the given length, a step
\* being named by a number or by its decimal string.
SameSteps(validPath, path, length) ==
  /\ Len(validPath) = length
  /\ \A k \in 1..length : SegToString(validPath[k]) = SegToString(path[k])

\* The paths the criteria were evaluated on, each with its tree.
EvaluatedPaths ==
  UNION {{[tree |-> r.file.data, path |-> CriteriaOf(r.matchResult.rule)[k].path] :
            k \in 1..Len(r.matchResult.checks)} : r \in RecordedMatches}

AccessAsSpecified(tree, path, access) ==
  /\ path = <<>> => (access.found /\ access.value = tree)
  /\ ResolvedLen(tree, path) = Len(path) =>
       /\ access.found
       /\ access.value = NodeAfter(tree, path, Len(path))
       /\ Len(access.validPath) = Len(path)
  /\ ResolvedLen(tree, path) < Len(path) =>
       /\ ~access.found
       /\ access.value = Undefined
       /\ access.error # NoError
       /\ SameSteps(access.validPath, path, ResolvedLen(tree, path))

\* C22: the empty path resolves to the tree; on success the value is the
\* node reached and validPath is as long as the path; on every failure (a
\* null or undefined node or a scalar with steps remaining, a bad array
\* index, a missing key) found is false, the value is undefined, an error is
\* set and validPath is the longest prefix of the path that resolved.
C22_AccessResult ==
  \A e \in EvaluatedPaths :
    AccessAsSpecified(e.tree, e.path, getValueFromPath(e.tree, e.path))

\* The steps of the evaluated paths that meet an array without denoting one
\* of its indices.
BadArraySteps ==
  UNION {{[tree |-> e.tree, path |-> e.path, at |-> k] :
            k \in {i \in 1..Len(e.path) :
                     /\ NodeAfter(e.tree, e.path, i - 1).kind = "array"
                     /\ ~ValidIndex(e.path[i],
                                    Len(NodeAfter(e.tree, e.path, i - 1).items))}} :
         e \in EvaluatedPaths}

\* C23: on an array, a step that does not denote, as a number or as a
\* decimal string, an integer i with 0 <= i < length (negative, too large,
\* not numeric, not whole) yields found = false with validPath the prefix
\* before that step.
C23_ArrayIndexValidated ==
  \A b \in BadArraySteps :
    /\ ~getValueFromPath(b.tree, b.path).found
    /\ SameSteps(getValueFromPath(b.tree, b.path).validPath, b.path, b.at - 1)

(***************************************************************************)
(* Progress of the walks (C24).                                            *)
(***************************************************************************)
\* A step of the strict while loop, and a step of the rule loop of the
\* optional modes.
StrictIteration == pc = "strict" /\ pc' = "strict"
OptionalIteration == pc = "optional" /\ pc' \in {"optional", "optional-break"}

CursorsInRange ==
  /\ 0 <= fileIndex /\ fileIndex <= Len(curFiles)
  /\ 0 <= ruleIndex /\ ruleIndex <= Len(curRules)
  /\ 0 <= currentFileIndex /\ currentFileIndex <= Len(curFiles)

\* C24: every iteration of the strict loop increases fileIndex or ruleIndex
\* and decreases neither, and both stay within the n records and m rule
\* units, so the loop ends after at most n + m iterations; the scan of the
\* optional modes never moves its record cursor back, starts every scan at a
\* position from 0 to n, and moves on to the next rule unit or stops.
C24_WalksAdvance ==
  /\ []CursorsInRange
  /\ [][StrictIteration =>
          /\ fileIndex' >= fileIndex /\ ruleIndex' >= ruleIndex
          /\ fileIndex' + ruleIndex' > fileIndex + ruleIndex]_vars
  /\ [][OptionalIteration =>
          /\ currentFileIndex' >= currentFileIndex
          /\ (pc' = "optional" => ruleIndex' = ruleIndex + 1)
          /\ (pc' = "optional-break" => ruleIndex' = ruleIndex)]_vars

\* A strict walk over at least two records and two rule units has run both
\* cursors to the end.
C24_Witness ==
  /\ WalkOver /\ Mode = "strict"
  /\ Len(curFiles) >= 2 /\ Len(curRules) >= 2
  /\ fileIndex = Len(curFiles) /\ ruleIndex = Len(curRules)
  /\ unmapped # <<>> /\ mapped # <<>>

(***************************************************************************)
(* No backtracking (C25).                                                  *)
(***************************************************************************)
InWalk == pc \in {"strict", "optional", "optional-break"}

\* The record cursor of the walk in progress.
RecordCursor == IF pc = "strict" THEN fileIndex ELSE currentFileIndex

\* The position (0-based) of a record in the walk's sorted files.
PositionOf(file) == CHOOSE p \in 0..(Len(curFiles) - 1) : curFiles[p + 1] = file

\* The entries of a list, in emission order, have strictly increasing record
\* positions and non-decreasing rule-unit positions.
EmittedInOrder(entries) ==
  \A i, j \in 1..Len(entries) :
    i < j => /\ PositionOf(entries[i].file) < PositionOf(entries[j].file)
             /\ entries[i].at[2] <= entries[j].at[2]

\* Across the two lists: the entry of the earlier record has the earlier or
\* the same rule unit, and no record has an entry in both.
EmittedConsistently ==
  \A i \in 1..Len(mapped), j \in 1..Len(wildcardMatched) :
    /\ mapped[i].file # wildcardMatched[j].file
    /\ PositionOf(mapped[i].file) < PositionOf(wildcardMatched[j].file)
         => mapped[i].at[2] <= wildcardMatched[j].at[2]
    /\ PositionOf(wildcardMatched[j].file) < PositionOf(mapped[i].file)
         => wildcardMatched[j].at[2] <= mapped[i].at[2]

\* While the walk runs, every classified record lies behind the record
\* cursor and every emitting rule unit at or behind the rule cursor.
ClassifiedBehindCursor ==
  InWalk =>
    /\ \A i \in 1..Len(mapped) :
         PositionOf(mapped[i].file) < RecordCursor /\ mapped[i].at[2] <= ruleIndex
    /\ \A i \in 1..Len(wildcardMatched) :
         /\ PositionOf(wildcardMatched[i].file) < RecordCursor
         /\ wildcardMatched[i].at[2] <= ruleIndex
    /\ \A i \in 1..Len(unmapped) : PositionOf(unmapped[i].file) < RecordCursor
    /\ \A i \in 1..Len(optionalFiles) : optionalFiles[i].position < RecordCursor

\* The list after the step is the list before it with entries appended.
Extended(before, after) ==
  Len(after) >= Len(before) /\ SubSeq(after, 1, Len(before)) = before

\* C25: in every mode the record cursor and the rule cursor never decrease;
\* the entries of mapped and wildcardMatched, in emission order, have
\* strictly increasing record positions and non-decreasing rule-unit
\* positions; a step emits only for the current rule unit and only records
\* at or after the record cursor, so a passed rule unit matches no later
\* record; and the entries of passed records are kept as they are.
C25_NoBacktracking ==
  /\ [](/\ EmittedInOrder(mapped) /\ EmittedInOrder(wildcardMatched)
        /\ EmittedConsistently /\ ClassifiedBehindCursor)
  /\ [][InWalk =>
          /\ fileIndex' >= fileIndex /\ currentFileIndex' >= currentFileIndex
          /\ ruleIndex' >= ruleIndex
          /\ Extended(mapped, mapped') /\ Extended(wildcardMatched, wildcardMatched')
          /\ Extended(unmapped, unmapped') /\ Extended(optionalFiles, optionalFiles')
          /\ \A k \in (Len(mapped) + 1)..Len(mapped') :
               /\ mapped'[k].at[2] = ruleIndex
               /\ PositionOf(mapped'[k].file) >= RecordCursor
          /\ \A k \in (Len(wildcardMatched) + 1)..Len(wildcardMatched') :
               /\ wildcardMatched'[k].at[2] = ruleIndex
               /\ PositionOf(wildcardMatched'[k].file) >= RecordCursor
          /\ \A k \in (Len(unmapped) + 1)..Len(unmapped') :
               PositionOf(unmapped'[k].file) >= RecordCursor
          /\ \A k \in (Len(optionalFiles) + 1)..Len(optionalFiles') :
               optionalFiles'[k].position >= RecordCursor]_vars

\* A walk of an optional mode emitted for two rule units, a mapped record
\* after a wildcard-matched one, with a record skipped in between.
C25_Witness ==
  /\ WalkOver /\ Mode \in OptionalModes
  /\ \E i \in 1..Len(mapped), j \in 1..Len(wildcardMatched) :
       /\ PositionOf(wildcardMatched[j].file) + 1 < PositionOf(mapped[i].file)
       /\ wildcardMatched[j].at[2] < mapped[i].at[2]

(***************************************************************************)
(* The branches of the strict walk (C26 to C30).                           *)
(***************************************************************************)
\* The strict loop is at a record with a rule unit to try.
AtUnit == pc = "strict" /\ fileIndex < Len(curFiles) /\ ruleIndex < Len(curRules)
AtStandalone == AtUnit /\ ~IsArray(curRules[ruleIndex + 1])
AtGroup == AtUnit /\ IsArray(curRules[ruleIndex + 1])

CurrentFile == curFiles[fileIndex + 1]
CurrentRule == curRules[ruleIndex + 1].rule

\* The current standalone rule is a mandatory SingleRule and the current
\* record does not match it.
AtFailingMandatory ==
  /\ AtStandalone
  /\ isSingleMatchRule(CurrentRule) /\ ~RuleOptional(CurrentRule)
  /\ ~matchFile(CurrentFile, CurrentRule).matched

\* C26: in mode strict, while a mandatory standalone SingleRule is the
\* current rule, a record that does not match it is emitted to unmapped with
\* the trace of that rule alone, fileIndex advances and the rule cursor
\* stays: no later rule unit is tried on the record.
C26_MandatoryBlocks ==
  [][AtFailingMandatory =>
       /\ unmapped' = Append(unmapped,
                             [file |-> CurrentFile,
                              attemptedRules |-> <<matchFile(CurrentFile, CurrentRule)>>])
       /\ fileIndex' = fileIndex + 1
       /\ ruleIndex' = ruleIndex
       /\ mapped' = mapped /\ wildcardMatched' = wildcardMatched]_vars

\* A strict walk left a record unmapped at a mandatory rule although a later
\* rule unit, never reached, matches the record.
C26_Witness ==
  /\ WalkOver /\ Mode = "strict" /\ ruleIndex < Len(curRules)
  /\ ~IsArray(curRules[ruleIndex + 1])
  /\ isSingleMatchRule(CurrentRule) /\ ~RuleOptional(CurrentRule)
  /\ \E i \in 1..Len(unmapped), u \in (ruleIndex + 2)..Len(curRules) :
       /\ unmapped[i].attemptedRules = <<matchFile(unmapped[i].file, CurrentRule)>>
       /\ ~IsArray(curRules[u])
       /\ matchFile(unmapped[i].file, curRules[u].rule).matched

CurrentGroup == curRules[ruleIndex + 1].rules

\* The members (0-based) of the current group consumed before and after the
\* step.
Consumed ==
  IF ruleIndex \in DOMAIN usedFlexibleRules THEN usedFlexibleRules[ruleIndex] ELSE {}
ConsumedAfter ==
  IF ruleIndex \in DOMAIN usedFlexibleRules' THEN usedFlexibleRules'[ruleIndex] ELSE {}

\* The traces of the file against the members outside the set, in listed
\* order.
RECURSIVE TracesOutside(_, _, _, _)
TracesOutside(file, group, members, k) ==
  IF k > Len(group) THEN <<>>
  ELSE (IF (k - 1) \in members THEN <<>> ELSE <<matchFile(file, group[k])>>)
       \o TracesOutside(file, group, members, k + 1)

\* C27: in mode strict the rule cursor leaves a flexible group in the step
\* that consumes its last unconsumed member and in no other step; until then
\* it stays on the group, a step consumes at most one member, never a
\* consumed one, and a record that is not matched was tested against the
\* unconsumed members only.
C27_GroupCursor ==
  [][AtGroup =>
       /\ ruleIndex' \in {ruleIndex, ruleIndex + 1}
       /\ (ruleIndex' = ruleIndex + 1)
            <=> (ConsumedAfter # Consumed /\ ConsumedAfter = 0..(Len(CurrentGroup) - 1))
       /\ Consumed \subseteq ConsumedAfter
       /\ Cardinality(ConsumedAfter \ Consumed) <= 1
       /\ \A k \in (Len(mapped) + 1)..Len(mapped') :
            mapped'[k].at[3] \in ConsumedAfter \ Consumed
       /\ \A k \in (Len(unmapped) + 1)..Len(unmapped') :
            unmapped'[k].attemptedRules
              = TracesOutside(CurrentFile, CurrentGroup, Consumed, 1)]_vars

\* A group of two members met three records: the second record matched no
\* unconsumed member and was tested against the remaining member only, the
\* third consumed it, and the rule cursor left the group.
C27_Witness ==
  /\ pc = "strict" /\ ruleIndex = 1 /\ fileIndex = 3
  /\ IsArray(curRules[1]) /\ Len(curRules[1].rules) = 2
  /\ 0 \in DOMAIN usedFlexibleRules /\ usedFlexibleRules[0] = {0, 1}
  /\ Len(mapped) = 2
  /\ mapped[1].file = curFiles[1] /\ mapped[2].file = curFiles[3]
  /\ Len(unmapped) = 1 /\ Len(unmapped[1].attemptedRules) = 1

\* The current record matches no unconsumed member of the current group.
AtGroupWithoutMatch ==
  /\ AtGroup
  /\ \A k \in 1..Len(CurrentGroup) :
       (k - 1) \notin Consumed => ~matchFile(CurrentFile, CurrentGroup[k]).matched

\* The group contains a mandatory member: a SingleRule that is not optional.
ContainsMandatoryMember(group) ==
  \E k \in 1..Len(group) :
    /\ "match" \in DOMAIN group[k] /\ "expected" \in DOMAIN group[k]
    /\ ~("optional" \in DOMAIN group[k] /\ group[k].optional)

\* C28: in mode strict, a record that matches no unconsumed member of the
\* current flexible group is emitted to unmapped, with the traces of the
\* members tried, exactly when the group contains a mandatory member; either
\* way fileIndex advances by one and the rule cursor stays.
C28_GroupNoMatch ==
  [][AtGroupWithoutMatch =>
       /\ fileIndex' = fileIndex + 1
       /\ ruleIndex' = ruleIndex
       /\ mapped' = mapped /\ wildcardMatched' = wildcardMatched
       /\ IF ContainsMandatoryMember(CurrentGroup)
          THEN unmapped' = Append(unmapped,
                                  [file |-> CurrentFile,
                                   attemptedRules |->
                                     TracesOutside(CurrentFile, CurrentGroup, Consumed, 1)])
          ELSE unmapped' = unmapped]_vars

\* A record matched neither member of a group with one mandatory and one
\* optional member and is unmapped with both traces.
C28_Witness ==
  /\ pc = "strict" /\ ruleIndex = 0 /\ fileIndex >= 1
  /\ Len(curRules) >= 1 /\ IsArray(curRules[1])
  /\ Len(curRules[1].rules) = 2
  /\ ContainsMandatoryMember(curRules[1].rules)
  /\ \E k \in 1..2 : RuleOptional(curRules[1].rules[k])
  /\ unmapped # <<>> /\ unmapped[1].file = curFiles[1]
  /\ Len(unmapped[1].attemptedRules) = 2
  /\ \A m \in 1..2 : ~unmapped[1].attemptedRules[m].matched

\* The unconsumed members (1-based) of the current group that match the
\* current record.
MatchingUnconsumed ==
  {k \in 1..Len(CurrentGroup) :
     (k - 1) \notin Consumed /\ matchFile(CurrentFile, CurrentGroup[k]).matched}

FirstMatching == CHOOSE k \in MatchingUnconsumed : \A j \in MatchingUnconsumed : k <= j

\* C29: in mode strict, when an unconsumed member of the current flexible
\* group matches the current record, the first such member in listed order,
\* SingleRule or WildcardRule, is marked consumed, the record is not emitted
\* to unmapped, fileIndex advances, and a SingleRule emits the record to
\* mapped.
C29_FirstMatchingMember ==
  [][(AtGroup /\ MatchingUnconsumed # {}) =>
       /\ ConsumedAfter = Consumed \cup {FirstMatching - 1}
       /\ unmapped' = unmapped
       /\ fileIndex' = fileIndex + 1
       /\ isSingleMatchRule(CurrentGroup[FirstMatching]) =>
            mapped' = Append(mapped,
                             MappedEntry(CurrentGroup[FirstMatching], CurrentFile,
                                         matchFile(CurrentFile, CurrentGroup[FirstMatching]),
                                         FirstMatching - 1))]_vars

\* The current record does not match the current standalone rule, which is
\* an optional SingleRule or a WildcardRule.
AtFailingOptional ==
  /\ AtStandalone
  /\ \/ "matchAny" \in DOMAIN CurrentRule
     \/ ("optional" \in DOMAIN CurrentRule /\ CurrentRule.optional)
  /\ ~matchFile(CurrentFile, CurrentRule).matched

\* C30: in mode strict, when the current record does not match the current
\* standalone rule and the rule is an optional SingleRule or a WildcardRule,
\* only ruleIndex advances and nothing is emitted, so the record meets the
\* next rule unit; and since the strict walk emits only for the rule unit at
\* the rule cursor, which never decreases, the skipped rule matches no later
\* record.
C30_OptionalSkipped ==
  /\ [][AtFailingOptional =>
          /\ ruleIndex' = ruleIndex + 1
          /\ fileIndex' = fileIndex
          /\ mapped' = mapped /\ wildcardMatched' = wildcardMatched
          /\ unmapped' = unmapped /\ optionalFiles' = optionalFiles]_vars
  /\ [][pc = "strict" =>
          /\ ruleIndex' >= ruleIndex
          /\ \A k \in (Len(mapped) + 1)..Len(mapped') : mapped'[k].at[2] = ruleIndex
          /\ \A k \in (Len(wildcardMatched) + 1)..Len(wildcardMatched') :
               wildcardMatched'[k].at[2] = ruleIndex]_vars

\* The first record did not match the optional first rule and was mapped by
\* the second; a later record matches the skipped rule, which emitted
\* nothing.
C30_Witness ==
  /\ WalkOver /\ Mode = "strict"
  /\ Len(curRules) >= 2 /\ ~IsArray(curRules[1])
  /\ RuleOptional(curRules[1].rule) /\ isSingleMatchRule(curRules[1].rule)
  /\ ~matchFile(curFiles[1], curRules[1].rule).matched
  /\ mapped # <<>> /\ mapped[1].file = curFiles[1] /\ mapped[1].at[2] = 1
  /\ \E p \in 2..Len(curFiles) : matchFile(curFiles[p], curRules[1].rule).matched
  /\ \A i \in 1..Len(mapped) : mapped[i].at[2] # 0

(***************************************************************************)
(* The end of the program in the strict walk (C31).                        *)
(***************************************************************************)
\* The rule cursor has run past the end of the program and a record is left.
PastProgram == pc = "strict" /\ fileIndex < Len(curFiles) /\ ruleIndex >= Len(curRules)

UnmappedUntried(file) == [file |-> file, attemptedRules |-> <<>>]

\* C31: in mode strict, once ruleIndex has run past the end of the program,
\* each step emits the next remaining record to unmapped with an empty
\* attemptedRules list and advances fileIndex only; and a strict walk of an
\* empty program leaves every record in unmapped, in record order.
C31_NoMoreRules ==
  /\ [][PastProgram =>
          /\ unmapped' = Append(unmapped, UnmappedUntried(curFiles[fileIndex + 1]))
          /\ fileIndex' = fileIndex + 1 /\ ruleIndex' = ruleIndex
          /\ mapped' = mapped /\ wildcardMatched' = wildcardMatched
          /\ optionalFiles' = optionalFiles]_vars
  /\ []((WalkOver /\ WalkPc(Mode) = "strict" /\ curRules = <<>>) =>
          unmapped = [i \in 1..Len(curFiles) |-> UnmappedUntried(curFiles[i])])

\* A strict walk has mapped its first record and left the two records after
\* the end of the program in unmapped, in their order.
C31_Witness ==
  /\ WalkOver /\ WalkPc(Mode) = "strict"
  /\ curRules # <<>> /\ Len(curFiles) >= 3
  /\ mapped # <<>> /\ mapped[1].file = curFiles[1]
  /\ unmapped = <<UnmappedUntried(curFiles[2]), UnmappedUntried(curFiles[3])>>

(***************************************************************************)
(* A rule unit without a match in mode optional (C32).                     *)
(***************************************************************************)
\* The scan of the current rule unit is about to start and no record from
\* the record cursor onward satisfies the unit.
ScanFindsNothing ==
  /\ pc = "optional" /\ ruleIndex < Len(curRules)
  /\ \A p \in currentFileIndex..(Len(curFiles) - 1) :
       ~UnitMatches(curRules[ruleIndex + 1], curFiles[p + 1])

\* C32: in mode optional, a rule unit that no record from the record cursor
\* onward satisfies leaves the record cursor and the last-match context
\* unchanged and classifies nothing, whether the unit is mandatory or not;
\* the rule loop goes on with the next rule unit, which scans from that same
\* cursor.
C32_UnmatchedRuleSkipped ==
  [][(ScanFindsNothing /\ Mode = "optional") =>
       /\ pc' = "optional" /\ ruleIndex' = ruleIndex + 1
       /\ currentFileIndex' = currentFileIndex
       /\ lastMatchedIndex' = lastMatchedIndex /\ lastMatchedRule' = lastMatchedRule
       /\ mapped' = mapped /\ wildcardMatched' = wildcardMatched
       /\ unmapped' = unmapped /\ optionalFiles' = optionalFiles]_vars

\* In mode optional the mandatory first rule matched no record, and the
\* second rule unit mapped the first record.
C32_Witness ==
  /\ WalkOver /\ Mode = "optional"
  /\ Len(curRules) >= 2 /\ MandatoryUnit(curRules[1])
  /\ \A p \in 1..Len(curFiles) : ~UnitMatches(curRules[1], curFiles[p])
  /\ mapped # <<>> /\ mapped[1].at[2] = 1 /\ mapped[1].file = curFiles[1]

(***************************************************************************)
(* The group loop (C33).                                                   *)
(***************************************************************************)
\* The records of a list that satisfy every criterion of a filter, in the
\* order of the list.
Satisfying(files, criteria) ==
  SelectSeq(files, LAMBDA f : \A k \in 1..Len(criteria) :
                                evaluateCriterion(f.data, criteria[k]).status)

\* The records the caller supplied that satisfy the pre-filter.
PassingPreFilter ==
  IF GivesPreFilter THEN Satisfying(request.files, request.preFilter) ELSE request.files

InGroupLoop == pc = "groups" /\ groupIndex < Len(request.groups)

ThisGroup == request.groups[groupIndex + 1]

\* The locals of a walk that has not looked at a record yet.
FreshWalk ==
  /\ fileIndex' = 0 /\ ruleIndex' = 0 /\ currentFileIndex' = 0
  /\ usedFlexibleRules' = <<>> /\ usedStandaloneRules' = {}
  /\ matchedFileIndices' = {}
  /\ lastMatchedIndex' = -1 /\ lastMatchedRule' = [null |-> TRUE]
  /\ mapped' = <<>> /\ wildcardMatched' = <<>>
  /\ unmapped' = <<>> /\ optionalFiles' = <<>>

\* C33: filterFilesWithGroups takes the groups in order; each group's rule
\* program runs in the caller's mode, with fresh cursors and consumed-sets,
\* on exactly the pre-filtered, sorted records that satisfy the group's
\* groupFilter, whatever earlier groups did with them, and the buckets of
\* each group's walk are appended, in group order, to the buckets returned.
C33_GroupsRunIndependently ==
     /\ []((caller = "groups" /\ pc # "call") =>
             /\ Len(sortedFiles) = Len(PassingPreFilter)
             /\ \A i \in 1..Len(sortedFiles) :
                  \E j \in 1..Len(PassingPreFilter) : sortedFiles[i] = PassingPreFilter[j]
             /\ IF "sortFn" \in DOMAIN request
                THEN \A i, j \in 1..Len(sortedFiles) :
                       i < j => sortedFiles[i].fileName > sortedFiles[j].fileName
                ELSE sortedFiles = PassingPreFilter)
     /\ [][(InGroupLoop /\ Satisfying(sortedFiles, ThisGroup.groupFilter) # <<>>) =>
             /\ pc' = WalkPc(Mode)
             /\ curFiles' = Satisfying(sortedFiles, ThisGroup.groupFilter)
             /\ curRules' = ThisGroup.rules
             /\ FreshWalk
             /\ merged' = merged /\ groupIndex' = groupIndex]_vars
     /\ [][(InGroupLoop /\ Satisfying(sortedFiles, ThisGroup.groupFilter) = <<>>) =>
             (merged' = merged /\ groupIndex' = groupIndex + 1 /\ pc' = "groups")]_vars
     /\ [][(caller = "groups" /\ InWalk /\ pc' = "groups") =>
             /\ groupIndex' = groupIndex + 1
             /\ merged'.mapped = merged.mapped \o mapped'
             /\ merged'.wildcardMatched = merged.wildcardMatched \o wildcardMatched'
             /\ merged'.unmapped = merged.unmapped \o unmapped'
             /\ merged'.optionalFiles = merged.optionalFiles \o optionalFiles']_vars
     /\ []((Done /\ caller = "groups") =>
             /\ result.mapped = merged.mapped
             /\ result.wildcardMatched = merged.wildcardMatched
             /\ result.unmapped = merged.unmapped
             /\ result.optionalFiles = merged.optionalFiles)

\* Two groups with overlapping filters have both mapped the same record.
C33_Witness ==
  /\ Done /\ caller = "groups" /\ Len(request.groups) = 2
  /\ request.groups[1].groupFilter # request.groups[2].groupFilter
  /\ \E i, j \in 1..Len(result.mapped) :
       /\ i < j
       /\ result.mapped[i].file = result.mapped[j].file
       /\ result.mapped[i].at[1] = 0 /\ result.mapped[j].at[1] = 1

(***************************************************************************)
(* The position of an optional file (C34).                                 *)
(***************************************************************************)
\* C34: the position of every optionalFiles entry of a returned result is
\* the position (0-based) of the entry's record in the files the caller
\* supplied, also under a sortFn, a preFilter or groups.
C34_OriginalPosition ==
  Done =>
    \A e \in 1..Len(result.optionalFiles) :
      /\ result.optionalFiles[e].position < Len(request.files)
      /\ request.files[result.optionalFiles[e].position + 1].fileName
           = result.optionalFiles[e].fileName

(***************************************************************************)
(* Soundness of the matches (C35).                                         *)
(***************************************************************************)
\* The rule program the entry's rule belongs to, and the rule itself.
ProgramOf(entry) ==
  IF entry.at[1] < 0 THEN request.rules ELSE request.groups[entry.at[1] + 1].rules

ProducingRule(entry) ==
  IF entry.at[3] < 0 THEN ProgramOf(entry)[entry.at[2] + 1].rule
  ELSE ProgramOf(entry)[entry.at[2] + 1].rules[entry.at[3] + 1]

\* The entry's matchResult is a match by the rule that produced the entry,
\* and the entry's record satisfies every criterion of that rule.
SoundEntry(entry) ==
  /\ entry.matchResult.matched
  /\ entry.matchResult.rule = ProducingRule(entry)
  /\ \A k \in 1..Len(CriteriaOf(ProducingRule(entry))) :
       evaluateCriterion(entry.file.data, CriteriaOf(ProducingRule(entry))[k]).status

SoundEntries(entries) == \A j \in 1..Len(entries) : SoundEntry(entries[j])

\* C35: in every mode, every entry of mapped and of wildcardMatched, in the
\* walk, in the buckets merged over the groups and in the returned result,
\* carries a matchResult with matched = true whose rule is the rule that
\* produced the entry, every criterion of that rule holds on the entry's
\* record, a mapped entry was produced by a SingleRule and carries its label,
\* and a wildcardMatched entry was produced by a WildcardRule.
C35_MatchesAreSound ==
  /\ SoundEntries(mapped) /\ SoundEntries(wildcardMatched)
  /\ SoundEntries(merged.mapped) /\ SoundEntries(merged.wildcardMatched)
  /\ \A j \in 1..Len(mapped) :
       /\ "match" \in DOMAIN ProducingRule(mapped[j])
       /\ mapped[j].expected = ProducingRule(mapped[j]).expected
  /\ \A j \in 1..Len(wildcardMatched) :
       "matchAny" \in DOMAIN ProducingRule(wildcardMatched[j])
  /\ Done => (SoundEntries(result.mapped) /\ SoundEntries(result.wildcardMatched))

\* A returned result holds a record mapped by a rule of two criteria beside
\* a record that satisfies only one of the two and is not mapped.
C35_Witness ==
  /\ Done /\ Len(result.mapped) >= 1
  /\ Len(CriteriaOf(ProducingRule(result.mapped[1]))) = 2
  /\ \E i \in 1..Len(request.files) :
       /\ \A j \in 1..Len(result.mapped) : result.mapped[j].file # request.files[i]
       /\ \E k \in 1..2 :
            evaluateCriterion(request.files[i].data,
                              CriteriaOf(ProducingRule(result.mapped[1]))[k]).status

(***************************************************************************)
(* One record per rule unit in the optional modes (C36).                   *)
(***************************************************************************)
\* The entries of mapped and wildcardMatched that the rule unit at 0-based
\* index u produced.
EmittedBy(u) ==
  Cardinality({j \in 1..Len(mapped) : mapped[j].at[2] = u})
    + Cardinality({j \in 1..Len(wildcardMatched) : wildcardMatched[j].at[2] = u})

Holds(data, criteria) ==
  \A k \in 1..Len(criteria) : evaluateCriterion(data, criteria[k]).status

\* The record passes the pre-filter and satisfies the filter of no group.
OutsideEveryGroup(file) ==
  /\ GivesPreFilter => Holds(file.data, request.preFilter)
  /\ \A g \in 1..Len(request.groups) : ~Holds(file.data, request.groups[g].groupFilter)

\* The record is in one of the five buckets of the returned result.
InSomeBucket(file) ==
  \/ \E j \in 1..Len(result.mapped) : result.mapped[j].file = file
  \/ \E j \in 1..Len(result.wildcardMatched) : result.wildcardMatched[j].file = file
  \/ \E j \in 1..Len(result.unmapped) : result.unmapped[j].file = file
  \/ \E j \in 1..Len(result.optionalFiles) : result.optionalFiles[j].fileName = file.fileName
  \/ \E j \in 1..Len(result.preFiltered) : result.preFiltered[j].file = file

AsReturned(entries) ==
  [j \in 1..Len(entries) |-> [k \in DOMAIN entries[j] \ {"at"} |-> entries[j][k]]]

\* The second call has returned; it ran the first call's rule program as
\* the one group of the request.
GroupedCallReturned ==
  /\ Done /\ earlier.calls = 1
  /\ SuppliesGroups
  /\ request = Grouped(earlier.request)

\* C38: for the same files, sortFn, preFilter and mode, a request with a
\* single group whose groupFilter is empty and whose rules are R returns the
\* same mapped, wildcardMatched, unmapped, optionalFiles, preFiltered and
\* stats as the request with the flat rule program R.
C38_SingleGroupIsFlat ==
  GroupedCallReturned =>
    /\ AsReturned(result.mapped) = AsReturned(earlier.result.mapped)
    /\ AsReturned(result.wildcardMatched) = AsReturned(earlier.result.wildcardMatched)
    /\ result.unmapped = earlier.result.unmapped
    /\ result.optionalFiles = earlier.result.optionalFiles
    /\ result.preFiltered = earlier.result.preFiltered
    /\ result.stats = earlier.result.stats

\* Both calls returned, under a sortFn and a preFilter that excluded a
\* record, a result with a mapped record and an optional one.
C38_Witness ==
  /\ GroupedCallReturned
  /\ "sortFn" \in DOMAIN request /\ GivesPreFilter
  /\ result.preFiltered # <<>>
  /\ result.mapped # <<>> /\ result.optionalFiles # <<>>
  /\ Len(sortedFiles) >= 2

(***************************************************************************)
(* Modes optional and strict-optional side by side (C39).                  *)
(***************************************************************************)
\* The second call has returned; it ran the first call's files and rule
\* program in the other one of the modes optional and strict-optional.
ModePairReturned ==
  /\ Done /\ earlier.calls = 1
  /\ SuppliesRules
  /\ request = OtherMode(earlier.request)

OptionalResult == IF Mode = "optional" THEN result ELSE earlier.result
StrictOptionalResult == IF Mode = "optional" THEN earlier.result ELSE result

\* The rule unit at 0-based index u found a match in the run with this
\* result.
FoundIn(res, u) ==
  \/ \E j \in 1..Len(res.mapped) : res.mapped[j].at[2] = u
  \/ \E j \in 1..Len(res.wildcardMatched) : res.wildcardMatched[j].at[2] = u

\* The mandatory rule units that found no match.
UnfoundMandatory(res) ==
  {u \in 0..(Len(request.rules) - 1) :
     MandatoryUnit(request.rules[u + 1]) /\ ~FoundIn(res, u)}

\* The entries that rule units before the first mandatory unit without a
\* match produced.
BeforeFirstUnfound(entries) ==
  SelectSeq(entries, LAMBDA e : \A u \in UnfoundMandatory(OptionalResult) : e.at[2] < u)

\* C39: for the same files, options and rule program, modes optional and
\* strict-optional return identical results when every mandatory rule unit
\* finds a match; otherwise the strict-optional result holds exactly the
\* mapped and wildcardMatched entries that the optional run produced before
\* the first mandatory rule unit without a match, its optionalFiles agree
\* with the optional run's up to the entries it closes with (end), and
\* preFiltered and the counts of files and rules are the same.
C39_OptionalModesAgree ==
  ModePairReturned =>
    /\ (UnfoundMandatory(OptionalResult) = {} \/ UnfoundMandatory(StrictOptionalResult) = {})
         => result = earlier.result
    /\ StrictOptionalResult.mapped = BeforeFirstUnfound(OptionalResult.mapped)
    /\ StrictOptionalResult.wildcardMatched
         = BeforeFirstUnfound(OptionalResult.wildcardMatched)
    /\ \A e \in 1..Len(StrictOptionalResult.optionalFiles) :
         StrictOptionalResult.optionalFiles[e].between.beforeRule # "(end)" =>
           /\ e <= Len(OptionalResult.optionalFiles)
           /\ OptionalResult.optionalFiles[e] = StrictOptionalResult.optionalFiles[e]
    /\ result.preFiltered = earlier.result.preFiltered
    /\ result.unmapped = <<>> /\ earlier.result.unmapped = <<>>
    /\ result.stats.totalFiles = earlier.result.stats.totalFiles
    /\ result.stats.totalRules = earlier.result.stats.totalRules
    /\ result.stats.mandatoryRules = earlier.result.stats.mandatoryRules

\* Both modes returned the same result with a mapped record: every
\* mandatory rule unit found a match, while an optional rule unit found none.
C39_Witness ==
  /\ ModePairReturned
  /\ result = earlier.result
  /\ result.mapped # <<>>
  /\ \E u \in 0..(Len(request.rules) - 1) : MandatoryUnit(request.rules[u + 1])
  /\ \E u \in 0..(Len(request.rules) - 1) :
       ~MandatoryUnit(request.rules[u + 1]) /\ ~FoundIn(result, u)

====
